---- MODULE Spec2Model ----
(***************************************************************************)
(* A model of the hitobito-api client: the request dispatcher of           *)
(* HitobitoClient (status classification, body reading, schema             *)
(* application) and the zod schemas that decode JSON:API documents into    *)
(* flattened entities.                                                     *)
(*                                                                         *)
(* The sources hold two clients: src/src/client.ts (the plain-JSON         *)
(* protocol, decoded by the flat schemas of types.ts:73-164) and           *)
(* src/unnamed/part_004 (the JSON:API protocol under /api, decoded by the  *)
(* schemas of types.ts:168-366).  The variable `variant` says which of the *)
(* two classes was constructed.                                            *)
(***************************************************************************)
EXTENDS Integers, Sequences, FiniteSets, TLC

VARIABLES
    variant,    \* "legacy" (src/src/client.ts) or "jsonapi" (src/unnamed/part_004)
    baseUrl,    \* this.baseUrl, a sequence of URL pieces
    token,      \* this.token
    pc,         \* position of the accessor call: idle, fetching, reading, done
    call,       \* the accessor called and its arguments
    requests,   \* the fetch calls issued by the current accessor call
    response,   \* the transport response handed back by fetch
    schema,     \* the schema the body was handed to ("none" before that)
    outcome,    \* how the accessor call settled
    stage,      \* decoder harness: "off", "input", "parsed"
    decoder,    \* decoder harness: the schema under test
    input,      \* decoder harness: the raw document
    output,     \* decoder harness: what safeParse gave
    inflight    \* concurrent calls on one client: the state of each call

vars == <<variant, baseUrl, token, pc, call, requests, response, schema,
          outcome, stage, decoder, input, output, inflight>>

clientVars == <<variant, baseUrl, token, pc, call, requests, response, schema, outcome>>
harnessVars == <<stage, decoder, input, output>>

----------------------------------------------------------------------------
(* JSON values as the transport's json() hands them over.                  *)

Undefined == [k |-> "undefined"]
Null == [k |-> "null"]
Str(s) == [k |-> "string", s |-> s]
Num(n) == [k |-> "number", n |-> n]
Arr(items) == [k |-> "array", items |-> items]
Obj(m) == [k |-> "object", m |-> m]
NoMembers == [x \in {} |-> Undefined]

\* v[key] of JavaScript: undefined when the member is absent.
Member(v, key) ==
    IF v.k = "object" /\ key \in DOMAIN v.m THEN v.m[key] ELSE Undefined

\* val?.key
OptMember(v, key) ==
    IF v.k \in {"undefined", "null"} THEN Undefined ELSE Member(v, key)

----------------------------------------------------------------------------
(* Number(x), as z.coerce.number() applies it.                             *)

NaN == [nan |-> TRUE, n |-> 0]
Finite(n) == [nan |-> FALSE, n |-> n]

\* The characters of the strings the model uses in id positions; any other
\* string holds a non-numeric character.
Chars(s) ==
    CASE s = "" -> <<>>
      [] s = "0" -> <<"0">>
      [] s = "1" -> <<"1">>
      [] s = "2" -> <<"2">>
      [] s = "3" -> <<"3">>
      [] s = "5" -> <<"5">>
      [] s = "7" -> <<"7">>
      [] s = "01" -> <<"0", "1">>
      [] s = "10" -> <<"1", "0">>
      [] s = "12" -> <<"1", "2">>
      [] s = "-1" -> <<"-", "1">>
      [] OTHER -> <<"x">>

DigitChars == {"0", "1", "2", "3", "4", "5", "6", "7", "8", "9"}

DigitValue(c) ==
    CASE c = "0" -> 0 [] c = "1" -> 1 [] c = "2" -> 2 [] c = "3" -> 3
      [] c = "4" -> 4 [] c = "5" -> 5 [] c = "6" -> 6 [] c = "7" -> 7
      [] c = "8" -> 8 [] c = "9" -> 9

RECURSIVE DecimalValue(_)
DecimalValue(cs) ==
    IF cs = <<>> THEN 0
    ELSE 10 * DecimalValue(SubSeq(cs, 1, Len(cs) - 1)) + DigitValue(cs[Len(cs)])

AllDigits(cs) == cs # <<>> /\ \A i \in 1..Len(cs) : cs[i] \in DigitChars

\* StringToNumber: the empty string is 0, an optional sign, decimal digits.
StringToNumber(cs) ==
    IF cs = <<>> THEN Finite(0)
    ELSE IF AllDigits(cs) THEN Finite(DecimalValue(cs))
    ELSE IF cs[1] = "-" /\ AllDigits(Tail(cs)) THEN Finite(0 - DecimalValue(Tail(cs)))
    ELSE IF cs[1] = "+" /\ AllDigits(Tail(cs)) THEN Finite(DecimalValue(Tail(cs)))
    ELSE NaN

JsNumber(v) ==
    CASE v.k = "number" -> Finite(v.n)
      [] v.k = "string" -> StringToNumber(Chars(v.s))
      [] v.k = "null" -> Finite(0)
      [] OTHER -> NaN

\* String(x), as z.coerce.string() applies it.
JsString(v) ==
    CASE v.k = "string" -> v.s
      [] v.k = "number" -> ToString(v.n)
      [] v.k = "null" -> "null"
      [] v.k = "undefined" -> "undefined"
      [] OTHER -> "[object Object]"

----------------------------------------------------------------------------
(* The zod field schemas used by the object shapes, named by their chain.   *)

Accepts(rule, v) ==
    CASE rule = "string" -> v.k = "string"
      [] rule = "string.optional" -> v.k \in {"string", "undefined"}
      [] rule = "string.nullable.optional" -> v.k \in {"string", "null", "undefined"}
      [] rule = "enum(m,w).nullable.optional" ->
            \/ v.k \in {"null", "undefined"}
            \/ (v.k = "string" /\ v.s \in {"m", "w"})
      [] rule = "coerce.number.nullable.optional" ->
            v.k \in {"null", "undefined"} \/ ~JsNumber(v).nan
      [] rule = "coerce.string.nullable.optional" -> TRUE
      [] rule = "number" -> v.k = "number"
      [] rule = "number.nullable.optional" -> v.k \in {"number", "null", "undefined"}
      [] OTHER -> FALSE

\* the field schemas without their coercions
ParsedUncoerced(rule, v) == v

Parsed(rule, v) ==
    CASE v.k \in {"null", "undefined"} -> v
      [] rule = "coerce.number.nullable.optional" -> Num(JsNumber(v).n)
      [] rule = "coerce.string.nullable.optional" -> Str(JsString(v))
      [] OTHER -> v

\* z.object(shape): every declared key is checked, undeclared keys are stripped,
\* a declared key absent from the input stays absent.
ObjectAccepts(shape, v) ==
    v.k = "object" /\ \A f \in DOMAIN shape : Accepts(shape[f], Member(v, f))

\* z.object(shape).passthrough(): undeclared keys are kept
ObjectParsedPassthrough(shape, v) ==
    [f \in DOMAIN v.m |-> IF f \in DOMAIN shape THEN Parsed(shape[f], v.m[f]) ELSE v.m[f]]

ObjectParsed(shape, v) ==
    [f \in {g \in DOMAIN shape : g \in DOMAIN v.m} |-> Parsed(shape[f], v.m[f])]

\* z.coerce.number() on an id member
CoerceNumberAccepts(v) == ~JsNumber(v).nan
CoerceNumberParsed(v) == Num(JsNumber(v).n)

----------------------------------------------------------------------------
(* The attribute shapes of the JSON:API schemas.                            *)

PersonAttributesSchema ==
    [first_name |-> "string",
     last_name |-> "string",
     nickname |-> "string.nullable.optional",
     email |-> "string.nullable.optional",
     birthday |-> "string.nullable.optional",
     gender |-> "enum(m,w).nullable.optional",
     address |-> "string.nullable.optional",
     zip_code |-> "coerce.string.nullable.optional",
     town |-> "string.nullable.optional",
     country |-> "string.nullable.optional",
     primary_group_id |-> "coerce.number.nullable.optional"]

GroupAttributesSchema ==
    [name |-> "string",
     short_name |-> "string.nullable.optional",
     type |-> "string.optional",
     parent_id |-> "coerce.number.nullable.optional",
     layer_group_id |-> "coerce.number.nullable.optional",
     email |-> "string.nullable.optional",
     address |-> "string.nullable.optional",
     zip_code |-> "coerce.string.nullable.optional",
     town |-> "string.nullable.optional",
     country |-> "string.nullable.optional"]

EventAttributesSchema ==
    [name |-> "string",
     description |-> "string.nullable.optional",
     motto |-> "string.nullable.optional",
     cost |-> "string.nullable.optional",
     maximum_participants |-> "coerce.number.nullable.optional",
     participant_count |-> "coerce.number.nullable.optional",
     location |-> "string.nullable.optional",
     application_opening_at |-> "string.nullable.optional",
     application_closing_at |-> "string.nullable.optional",
     application_conditions |-> "string.nullable.optional",
     state |-> "string.nullable.optional"]

EventDateAttributesSchema ==
    [label |-> "string.nullable.optional",
     start_at |-> "string",
     finish_at |-> "string.nullable.optional",
     location |-> "string.nullable.optional"]

RoleAttributesSchema ==
    [type |-> "string.optional",
     name |-> "string.optional",
     created_at |-> "string.optional",
     updated_at |-> "string.optional",
     deleted_at |-> "string.nullable.optional"]

----------------------------------------------------------------------------
(* Results of schema.safeParse(data): success with the transformed value,   *)
(* failure (a ZodError collected by safeParse), or an exception thrown by   *)
(* a transform and not caught by safeParse.                                 *)

Success(data) == [success |-> TRUE, thrown |-> FALSE, data |-> data]
Failure == [success |-> FALSE, thrown |-> FALSE]
Thrown(error) == [success |-> FALSE, thrown |-> TRUE, error |-> error]

\* z.array(item schema): an array whose every element is accepted
ArrayAccepts(v, ItemAccepts(_)) ==
    v.k = "array" /\ \A i \in 1..Len(v.items) : ItemAccepts(v.items[i])

----------------------------------------------------------------------------
(* EventRelationshipSchema and IncludedResourceSchema                       *)

\* z.object({ id: z.coerce.number(), type: z.string() })
ResourceReferenceAccepts(ref) ==
    /\ ref.k = "object"
    /\ CoerceNumberAccepts(Member(ref, "id"))
    /\ Member(ref, "type").k = "string"

\* z.object({ data: z.array(reference) }).optional()
ToManyAccepts(rel) ==
    \/ rel.k = "undefined"
    \/ /\ rel.k = "object"
       /\ ArrayAccepts(Member(rel, "data"), ResourceReferenceAccepts)

\* the relationships object with both members required
EventRelationshipSchemaRequired(rels) ==
    /\ rels.k = "object"
    /\ Member(rels, "dates").k = "object"
    /\ ToManyAccepts(Member(rels, "dates"))
    /\ Member(rels, "groups").k = "object"
    /\ ToManyAccepts(Member(rels, "groups"))

EventRelationshipSchemaAccepts(rels) ==
    /\ rels.k = "object"
    /\ ToManyAccepts(Member(rels, "dates"))
    /\ ToManyAccepts(Member(rels, "groups"))

IncludedResourceSchemaAccepts(inc) ==
    /\ inc.k = "object"
    /\ CoerceNumberAccepts(Member(inc, "id"))
    /\ Member(inc, "type").k = "string"
    /\ Member(inc, "attributes").k = "object"

\* included: z.array(IncludedResourceSchema).optional()
IncludedAccepts(included) ==
    \/ included.k = "undefined"
    \/ ArrayAccepts(included, IncludedResourceSchemaAccepts)

\* relationships?.<name>?.data.map((r) => r.id) ?? []
\* the ids of a relationship with repeated references collapsed
RelationshipIdsOnce(node, name) ==
    LET rel == OptMember(Member(node, "relationships"), name)
    IN  IF rel.k = "undefined" THEN <<>>
        ELSE LET refs == Member(rel, "data").items
                 ids == [i \in 1..Len(refs) |-> CoerceNumberParsed(Member(refs[i], "id"))]
                 kept == SelectSeq([i \in 1..Len(ids) |-> i],
                                   LAMBDA i : \A j \in 1..(i - 1) : ids[j] # ids[i])
             IN  [p \in 1..Len(kept) |-> ids[kept[p]]]

RelationshipIds(node, name) ==
    LET rel == OptMember(Member(node, "relationships"), name)
    IN  IF rel.k = "undefined" THEN <<>>
        ELSE LET refs == Member(rel, "data").items
             IN  [i \in 1..Len(refs) |-> CoerceNumberParsed(Member(refs[i], "id"))]

SeqRange(s) == {s[i] : i \in 1..Len(s)}

\* the filter with its result reversed
MatchedIncludedReversed(included, dateIds) ==
    IF included.k = "undefined" THEN <<>>
    ELSE LET kept == SelectSeq(included.items,
                               LAMBDA inc : /\ Member(inc, "type") = Str("event_dates")
                                            /\ CoerceNumberParsed(Member(inc, "id")) \in dateIds)
         IN  [i \in 1..Len(kept) |-> kept[Len(kept) + 1 - i]]

\* the filter without the test on the id
EveryIncludedDate(included, dateIds) ==
    IF included.k = "undefined" THEN <<>>
    ELSE SelectSeq(included.items, LAMBDA inc : Member(inc, "type") = Str("event_dates"))

\* (val.included ?? []).filter((inc) => inc.type === "event_dates" && dateIds.has(inc.id))
MatchedIncluded(included, dateIds) ==
    IF included.k = "undefined" THEN <<>>
    ELSE SelectSeq(included.items,
                   LAMBDA inc : /\ Member(inc, "type") = Str("event_dates")
                                /\ CoerceNumberParsed(Member(inc, "id")) \in dateIds)

\* .map((inc) => ({ id: inc.id, ...EventDateAttributesSchema.parse(inc.attributes) }))
EventDateOf(inc) ==
    ObjectParsed(EventDateAttributesSchema, Member(inc, "attributes"))
        @@ ("id" :> CoerceNumberParsed(Member(inc, "id")))

\* the transform with group_ids read from the included groups nodes
ResolveEventGroupsFromIncluded(node, included) ==
    LET groups == IF included.k = "undefined" THEN <<>>
                  ELSE SelectSeq(included.items,
                                 LAMBDA inc : Member(inc, "type") = Str("groups"))
        group_ids == [i \in 1..Len(groups) |-> CoerceNumberParsed(Member(groups[i], "id"))]
        dateIds == SeqRange(RelationshipIds(node, "dates"))
        matched == MatchedIncluded(included, dateIds)
        dates == [i \in 1..Len(matched) |-> EventDateOf(matched[i])]
    IN  ("dates" :> dates @@ "group_ids" :> group_ids)
            @@ ObjectParsed(EventAttributesSchema, Member(node, "attributes"))
            @@ ("id" :> CoerceNumberParsed(Member(node, "id")))

\* The transform shared, line for line, by EventSchema and EventsResponseSchema:
\* group_ids from the references, dates from the included table.
ResolveEvent(node, included) ==
    LET group_ids == RelationshipIds(node, "groups")
        dateIds == SeqRange(RelationshipIds(node, "dates"))
        matched == MatchedIncluded(included, dateIds)
        dates == [i \in 1..Len(matched) |-> EventDateOf(matched[i])]
    IN  ("dates" :> dates @@ "group_ids" :> group_ids)
            @@ ObjectParsed(EventAttributesSchema, Member(node, "attributes"))
            @@ ("id" :> CoerceNumberParsed(Member(node, "id")))

\* a transform that also throws on a reference without an included node
ResolveEventThrowsOnMissing(node, included) ==
    LET ids == RelationshipIds(node, "dates")
        matched == MatchedIncluded(included, SeqRange(ids))
    IN  \/ \E i \in 1..Len(matched) :
              ~ObjectAccepts(EventDateAttributesSchema, Member(matched[i], "attributes"))
        \/ \E i \in 1..Len(ids) :
              \A p \in 1..Len(matched) : CoerceNumberParsed(Member(matched[p], "id")) # ids[i]

\* EventDateAttributesSchema.parse throws a ZodError out of the transform when a
\* matched included node's attributes do not fit.
ResolveEventThrows(node, included) ==
    LET matched == MatchedIncluded(included, SeqRange(RelationshipIds(node, "dates")))
    IN  \E i \in 1..Len(matched) :
            ~ObjectAccepts(EventDateAttributesSchema, Member(matched[i], "attributes"))

----------------------------------------------------------------------------
(* The JSON:API envelope schemas (types.ts:239-366)                         *)

PersonNodeAccepts(node) ==
    /\ node.k = "object"
    /\ CoerceNumberAccepts(Member(node, "id"))
    /\ Member(node, "type") = Str("people")
    /\ ObjectAccepts(PersonAttributesSchema, Member(node, "attributes"))

PersonOf(node) ==
    ObjectParsed(PersonAttributesSchema, Member(node, "attributes"))
        @@ ("id" :> CoerceNumberParsed(Member(node, "id")))

PersonSchema(body) ==
    IF body.k = "object" /\ PersonNodeAccepts(Member(body, "data"))
    THEN Success(PersonOf(Member(body, "data")))
    ELSE Failure

GroupNodeAccepts(node) ==
    /\ node.k = "object"
    /\ CoerceNumberAccepts(Member(node, "id"))
    /\ Member(node, "type") = Str("groups")
    /\ ObjectAccepts(GroupAttributesSchema, Member(node, "attributes"))

\* { id, type: data.type, ...attributes }: an attribute `type` replaces the tag
GroupOf(node) ==
    ObjectParsed(GroupAttributesSchema, Member(node, "attributes"))
        @@ ("id" :> CoerceNumberParsed(Member(node, "id"))
              @@ "type" :> Member(node, "type"))

GroupSchema(body) ==
    IF body.k = "object" /\ GroupNodeAccepts(Member(body, "data"))
    THEN Success(GroupOf(Member(body, "data")))
    ELSE Failure

EventNodeAccepts(node) ==
    /\ node.k = "object"
    /\ CoerceNumberAccepts(Member(node, "id"))
    /\ Member(node, "type") = Str("events")
    /\ ObjectAccepts(EventAttributesSchema, Member(node, "attributes"))
    /\ \/ Member(node, "relationships").k = "undefined"
       \/ EventRelationshipSchemaAccepts(Member(node, "relationships"))

EventSchema(body) ==
    IF /\ body.k = "object"
       /\ EventNodeAccepts(Member(body, "data"))
       /\ IncludedAccepts(Member(body, "included"))
    THEN IF ResolveEventThrows(Member(body, "data"), Member(body, "included"))
         THEN Thrown("ZodError")
         ELSE Success(ResolveEvent(Member(body, "data"), Member(body, "included")))
    ELSE Failure

\* a people list decoded back to front
PeopleResponseSchemaReversed(body) ==
    IF body.k = "object" /\ ArrayAccepts(Member(body, "data"), PersonNodeAccepts)
    THEN LET data == Member(body, "data").items
         IN  Success([i \in 1..Len(data) |-> PersonOf(data[Len(data) + 1 - i])])
    ELSE Failure

\* a people list that leaves out the nodes it cannot decode
PeopleResponseSchemaSkipping(body) ==
    IF body.k = "object" /\ Member(body, "data").k = "array"
    THEN LET data == SelectSeq(Member(body, "data").items, PersonNodeAccepts)
         IN  Success([i \in 1..Len(data) |-> PersonOf(data[i])])
    ELSE Failure

PeopleResponseSchema(body) ==
    IF body.k = "object" /\ ArrayAccepts(Member(body, "data"), PersonNodeAccepts)
    THEN LET data == Member(body, "data").items
         IN  Success([i \in 1..Len(data) |-> PersonOf(data[i])])
    ELSE Failure

GroupsResponseSchema(body) ==
    IF body.k = "object" /\ ArrayAccepts(Member(body, "data"), GroupNodeAccepts)
    THEN LET data == Member(body, "data").items
         IN  Success([i \in 1..Len(data) |-> GroupOf(data[i])])
    ELSE Failure

\* an events list in which only the first event sees the included table
EventsResponseSchemaUnshared(body) ==
    IF /\ body.k = "object"
       /\ ArrayAccepts(Member(body, "data"), EventNodeAccepts)
       /\ IncludedAccepts(Member(body, "included"))
    THEN LET data == Member(body, "data").items
             included == Member(body, "included")
             table(i) == IF i = 1 THEN included ELSE Undefined
         IN  IF \E i \in 1..Len(data) : ResolveEventThrows(data[i], table(i))
             THEN Thrown("ZodError")
             ELSE Success([i \in 1..Len(data) |-> ResolveEvent(data[i], table(i))])
    ELSE Failure

EventsResponseSchema(body) ==
    IF /\ body.k = "object"
       /\ ArrayAccepts(Member(body, "data"), EventNodeAccepts)
       /\ IncludedAccepts(Member(body, "included"))
    THEN LET data == Member(body, "data").items
             included == Member(body, "included")
         IN  IF \E i \in 1..Len(data) : ResolveEventThrows(data[i], included)
             THEN Thrown("ZodError")
             ELSE Success([i \in 1..Len(data) |-> ResolveEvent(data[i], included)])
    ELSE Failure

\* z.object({ data: z.object({ id, type: z.literal(tag) }).optional() }).optional()
ToOneAccepts(rel, tag) ==
    \/ rel.k = "undefined"
    \/ /\ rel.k = "object"
       /\ LET ref == Member(rel, "data")
          IN  \/ ref.k = "undefined"
              \/ /\ ref.k = "object"
                 /\ CoerceNumberAccepts(Member(ref, "id"))
                 /\ Member(ref, "type") = Str(tag)

RoleNodeAccepts(node) ==
    /\ node.k = "object"
    /\ CoerceNumberAccepts(Member(node, "id"))
    /\ Member(node, "type") = Str("roles")
    /\ ObjectAccepts(RoleAttributesSchema, Member(node, "attributes"))
    /\ LET rels == Member(node, "relationships")
       IN  \/ rels.k = "undefined"
           \/ /\ rels.k = "object"
              /\ ToOneAccepts(Member(rels, "person"), "people")
              /\ ToOneAccepts(Member(rels, "group"), "groups")

\* x || fallback on a string: undefined and "" give the fallback
OrString(v, fallback) ==
    IF v.k = "undefined" \/ v = Str("") THEN Str(fallback) ELSE v

\* the linked id read from attributes.<name>_id instead of the relationship
ToOneIdFromAttributes(node, name) ==
    LET v == Member(Member(node, "attributes"),
                    IF name = "person" THEN "person_id" ELSE "group_id")
    IN  IF v.k = "number" THEN v ELSE Num(0)

\* item.relationships?.<name>?.data?.id || 0
ToOneId(node, name) ==
    LET ref == OptMember(OptMember(Member(node, "relationships"), name), "data")
    IN  IF ref.k = "undefined" THEN Num(0) ELSE CoerceNumberParsed(Member(ref, "id"))

RoleOf(node) ==
    LET attributes == Member(node, "attributes")
    IN  [id |-> CoerceNumberParsed(Member(node, "id")),
         type |-> OrString(Member(attributes, "type"), ""),
         name |-> Member(attributes, "name"),
         person_id |-> ToOneId(node, "person"),
         group_id |-> ToOneId(node, "group"),
         created_at |-> OrString(Member(attributes, "created_at"), ""),
         updated_at |-> OrString(Member(attributes, "updated_at"), ""),
         deleted_at |-> Member(attributes, "deleted_at")]

RolesResponseSchema(body) ==
    IF body.k = "object" /\ ArrayAccepts(Member(body, "data"), RoleNodeAccepts)
    THEN LET data == Member(body, "data").items
         IN  Success([i \in 1..Len(data) |-> RoleOf(data[i])])
    ELSE Failure

----------------------------------------------------------------------------
(* Raw documents: the bounded families the decoders are run on.             *)

MaxRefs == 2        \* longest reference list of a relationship
MaxIncluded == 2    \* longest included table
MaxList == 2        \* longest primary data array

SeqsUpTo(S, n) == UNION {[1..m -> S] : m \in 0..n}

Node(id, type, attributes) ==
    Obj("id" :> id @@ "type" :> Str(type) @@ "attributes" :> attributes)

WithRelationships(node, relationships) ==
    Obj(node.m @@ ("relationships" :> relationships))

Reference(id, type) == Obj("id" :> id @@ "type" :> Str(type))

ToMany(refs) == Obj("data" :> Arr(refs))

\* either member may be absent from the relationships object
Relationships(dates, groups) ==
    Obj([key \in {n \in {"dates", "groups"} :
                    IF n = "dates" THEN dates.k # "undefined" ELSE groups.k # "undefined"}
            |-> IF key = "dates" THEN dates ELSE groups])

Envelope(data, included) ==
    IF included.k = "undefined" THEN Obj("data" :> data)
    ELSE Obj("data" :> data @@ "included" :> included)

DateAttributes == Obj("start_at" :> Str("2024-07-01T00:00:00Z"))
DateAttributesWithoutStart == Obj("label" :> Str("Anreise"))
EventAttributes == Obj("name" :> Str("Sommerlager"))

DateReferences == {Reference(Str(i), t) : i \in {"1", "2"}, t \in {"event_dates", "groups"}}
GroupReferences == {Reference(Str(i), "groups") : i \in {"5", "7"}}

IncludedNodes ==
    {Node(Str(i), "event_dates", DateAttributes) : i \in {"1", "2"}}
        \cup {Node(Str(i), "event_dates", DateAttributesWithoutStart) : i \in {"1", "2"}}
        \cup {Node(Str(i), "groups", Obj("name" :> Str("Abteilung"))) : i \in {"1", "2"}}

IncludedTables == {Undefined} \cup {Arr(t) : t \in SeqsUpTo(IncludedNodes, MaxIncluded)}

EventRelationships ==
    {Undefined} \cup
    {Relationships(d, g) :
        d \in {Undefined} \cup {ToMany(r) : r \in SeqsUpTo(DateReferences, MaxRefs)},
        g \in {Undefined} \cup {ToMany(r) : r \in SeqsUpTo(GroupReferences, MaxRefs)}}

EventNode(id, relationships) ==
    IF relationships.k = "undefined" THEN Node(id, "events", EventAttributes)
    ELSE WithRelationships(Node(id, "events", EventAttributes), relationships)

\* single-event documents: every relationship shape against every included table
EventDocuments ==
    {Envelope(EventNode(Str("1"), r), inc) : r \in EventRelationships, inc \in IncludedTables}

\* documents that are no event envelope
MalformedEventDocuments ==
    {Null,
     Obj(NoMembers),
     Obj("data" :> Null),
     Obj("data" :> Arr(<<EventNode(Str("1"), Undefined)>>)),
     Obj("data" :> Node(Str("1"), "people", EventAttributes)),
     Obj("data" :> Node(Str("x"), "events", EventAttributes)),
     Obj("data" :> Node(Str("1"), "events", Obj(NoMembers))),
     Obj("data" :> Node(Str("1"), "events", Obj("name" :> Num(7)))),
     Envelope(EventNode(Str("1"), Undefined), Arr(<<Reference(Str("1"), "event_dates")>>)),
     Envelope(EventNode(Str("1"), Relationships(Obj(NoMembers), Undefined)), Undefined),
     Envelope(EventNode(Str("1"),
                        Relationships(ToMany(<<Reference(Str("x"), "event_dates")>>),
                                      Undefined)),
              Undefined)}

\* primary event nodes of list documents
ListEventNodes ==
    {EventNode(Str(i), r) :
        i \in {"1", "2"},
        r \in {Undefined,
               Relationships(ToMany(<<Reference(Str("1"), "event_dates")>>),
                             ToMany(<<Reference(Str("5"), "groups")>>)),
               Relationships(ToMany(<<Reference(Str("2"), "event_dates"),
                                      Reference(Str("1"), "event_dates")>>),
                             Undefined),
               Relationships(Undefined,
                             ToMany(<<Reference(Str("7"), "groups"),
                                      Reference(Str("7"), "groups")>>))}}
        \cup {Node(Str("3"), "events", Obj(NoMembers)),
              Node(Str("3"), "groups", EventAttributes)}

EventListDocuments ==
    {Envelope(Arr(d), inc) : d \in SeqsUpTo(ListEventNodes, MaxList), inc \in IncludedTables}

PersonNodes ==
    {Node(Str("1"), "people", Obj("first_name" :> Str("Max") @@ "last_name" :> Str("Muster"))),
     Node(Num(2), "people",
          Obj("first_name" :> Str("Anna") @@ "last_name" :> Str("Test")
                @@ "gender" :> Str("w") @@ "primary_group_id" :> Str("5")
                @@ "nickname" :> Null @@ "zip_code" :> Num(8000)
                @@ "hobby" :> Str("Pfadi"))),
     Node(Str("3"), "people", Obj("first_name" :> Str("Kim"))),
     Node(Str("3"), "people",
          Obj("first_name" :> Str("Kim") @@ "last_name" :> Num(7))),
     Node(Str("3"), "people",
          Obj("first_name" :> Str("Kim") @@ "last_name" :> Str("Lang")
                @@ "gender" :> Str("x"))),
     Node(Str("3"), "groups", Obj("first_name" :> Str("Kim") @@ "last_name" :> Str("Lang"))),
     Node(Str("x"), "people", Obj("first_name" :> Str("Kim") @@ "last_name" :> Str("Lang")))}

GroupNodes ==
    {Node(Str("2"), "groups", Obj("name" :> Str("Child 1") @@ "parent_id" :> Num(1))),
     Node(Str("3"), "groups",
          Obj("name" :> Str("Child 2") @@ "parent_id" :> Str("1")
                @@ "type" :> Str("Group::Abteilung"))),
     Node(Str("4"), "groups", Obj("short_name" :> Str("C3"))),
     Node(Str("4"), "people", Obj("name" :> Str("Child 3"))),
     Node(Str("4"), "groups", Obj("name" :> Str("Child 3") @@ "parent_id" :> Str("x")))}

ToOne(id, type) == Obj("data" :> Reference(id, type))

RoleNodes ==
    {Node(Str("1"), "roles",
          Obj("type" :> Str("GroupAdmin") @@ "created_at" :> Str("2024-01-01T00:00:00Z")
                @@ "updated_at" :> Str("2024-01-01T00:00:00Z"))),
     Node(Str("2"), "roles",
          Obj("type" :> Str("Member") @@ "person_id" :> Num(42) @@ "group_id" :> Num(7))),
     WithRelationships(Node(Str("3"), "roles", Obj(NoMembers)),
                       Obj("person" :> ToOne(Str("12"), "people")
                             @@ "group" :> ToOne(Num(7), "groups"))),
     WithRelationships(Node(Str("3"), "roles", Obj("deleted_at" :> Null)),
                       Obj("person" :> Obj(NoMembers))),
     WithRelationships(Node(Str("4"), "roles", Obj(NoMembers)),
                       Obj("person" :> ToOne(Str("12"), "groups"))),
     Node(Str("4"), "roles", Obj("name" :> Null)),
     Node(Str("4"), "people", Obj(NoMembers))}

ListDocuments(nodes) ==
    {Envelope(Arr(d), Undefined) : d \in SeqsUpTo(nodes, MaxList)}
        \cup {Null, Obj(NoMembers), Obj("data" :> Null)}
        \cup {Obj("data" :> n) : n \in nodes}

SingleDocuments(nodes) ==
    {Envelope(n, Undefined) : n \in nodes}
        \cup {Null, Obj(NoMembers), Obj("data" :> Null)}
        \cup {Obj("data" :> Arr(<<n>>)) : n \in nodes}

Decoders ==
    {"PersonSchema", "GroupSchema", "EventSchema", "PeopleResponseSchema",
     "GroupsResponseSchema", "EventsResponseSchema", "RolesResponseSchema"}

\* an event with count attributes given as a numeric string and as a number
CountedEventDocuments ==
    {Envelope(Node(Str("1"), "events",
                   Obj("name" :> Str("Sommerlager") @@ "motto" :> Null
                         @@ "maximum_participants" :> Str("12")
                         @@ "participant_count" :> Num(3)
                         @@ "leader" :> Str("Kim"))),
              Undefined)}

\* raw ids at the edge of what Number() accepts
EdgeIds == {Str("0"), Str("-1"), Str(""), Null, Num(-1)}

\* one well-formed node of each kind under each edge id; for events also the id
\* of a referenced and included event date
EdgeIdDocuments(d) ==
    LET person(i) == Node(i, "people",
                          Obj("first_name" :> Str("Max") @@ "last_name" :> Str("Muster")))
        group(i) == Node(i, "groups", Obj("name" :> Str("Abteilung")))
        role(i) == Node(i, "roles", Obj("type" :> Str("Member")))
        dated(i) == EventNode(Str("1"),
                              Relationships(ToMany(<<Reference(i, "event_dates")>>), Undefined))
        day(i) == Arr(<<Node(i, "event_dates", DateAttributes)>>)
    IN  CASE d = "PersonSchema" -> {Envelope(person(i), Undefined) : i \in EdgeIds}
          [] d = "GroupSchema" -> {Envelope(group(i), Undefined) : i \in EdgeIds}
          [] d = "EventSchema" ->
                {Envelope(EventNode(i, Undefined), Undefined) : i \in EdgeIds}
                    \cup {Envelope(dated(i), day(i)) : i \in EdgeIds}
          [] d = "PeopleResponseSchema" ->
                {Envelope(Arr(<<person(i)>>), Undefined) : i \in EdgeIds}
          [] d = "GroupsResponseSchema" ->
                {Envelope(Arr(<<group(i)>>), Undefined) : i \in EdgeIds}
          [] d = "EventsResponseSchema" ->
                {Envelope(Arr(<<EventNode(i, Undefined)>>), Undefined) : i \in EdgeIds}
                    \cup {Envelope(Arr(<<dated(i)>>), day(i)) : i \in EdgeIds}
          [] d = "RolesResponseSchema" ->
                {Envelope(Arr(<<role(i)>>), Undefined) : i \in EdgeIds}

\* attributes that carry keys of the entity's derived fields and a key no
\* schema declares
ShadowingAttributes ==
    "id" :> Str("99") @@ "dates" :> Arr(<<Str("2030-01-01")>>)
        @@ "group_ids" :> Arr(<<Num(99)>>) @@ "leader" :> Str("Kim")

\* one well-formed node of each kind with the shadowing attributes; the event
\* refers to date 1 and group 5, and date 1 is included
ShadowingDocuments(d) ==
    LET person == Node(Str("1"), "people",
                       Obj("first_name" :> Str("Max") @@ "last_name" :> Str("Muster")
                             @@ ShadowingAttributes))
        group == Node(Str("1"), "groups",
                      Obj("name" :> Str("Abteilung") @@ "type" :> Str("Group::Abteilung")
                            @@ ShadowingAttributes))
        role == Node(Str("1"), "roles", Obj("type" :> Str("Member") @@ ShadowingAttributes))
        plain == Node(Str("1"), "events", Obj("name" :> Str("Sommerlager") @@ ShadowingAttributes))
        event == WithRelationships(plain,
                    Relationships(ToMany(<<Reference(Str("1"), "event_dates")>>),
                                  ToMany(<<Reference(Str("5"), "groups")>>)))
        days == Arr(<<Node(Str("1"), "event_dates", DateAttributes)>>)
    IN  CASE d = "PersonSchema" -> {Envelope(person, Undefined)}
          [] d = "GroupSchema" -> {Envelope(group, Undefined)}
          [] d = "EventSchema" -> {Envelope(plain, Undefined), Envelope(event, days)}
          [] d = "PeopleResponseSchema" -> {Envelope(Arr(<<person>>), Undefined)}
          [] d = "GroupsResponseSchema" -> {Envelope(Arr(<<group>>), Undefined)}
          [] d = "EventsResponseSchema" ->
                {Envelope(Arr(<<plain>>), Undefined), Envelope(Arr(<<event, plain>>), days)}
          [] d = "RolesResponseSchema" -> {Envelope(Arr(<<role>>), Undefined)}

DocumentsFor(d) ==
    EdgeIdDocuments(d) \cup ShadowingDocuments(d) \cup
    CASE d = "PersonSchema" -> SingleDocuments(PersonNodes)
      [] d = "GroupSchema" -> SingleDocuments(GroupNodes)
      [] d = "EventSchema" ->
            EventDocuments \cup MalformedEventDocuments \cup CountedEventDocuments
      [] d = "PeopleResponseSchema" -> ListDocuments(PersonNodes)
      [] d = "GroupsResponseSchema" -> ListDocuments(GroupNodes)
      [] d = "EventsResponseSchema" -> EventListDocuments \cup MalformedEventDocuments
      [] d = "RolesResponseSchema" -> ListDocuments(RoleNodes)

----------------------------------------------------------------------------
(* The flat schemas of the plain-JSON protocol (types.ts:73-164), used by   *)
(* src/src/client.ts.                                                       *)

LegacyPersonSchema ==
    [id |-> "number",
     first_name |-> "string",
     last_name |-> "string",
     nickname |-> "string.nullable.optional",
     email |-> "string.nullable.optional",
     birthday |-> "string.nullable.optional",
     gender |-> "enum(m,w).nullable.optional",
     address |-> "string.nullable.optional",
     zip_code |-> "string.nullable.optional",
     town |-> "string.nullable.optional",
     country |-> "string.nullable.optional",
     primary_group_id |-> "number.nullable.optional"]

LegacyGroupSchema ==
    [id |-> "number",
     name |-> "string",
     short_name |-> "string.nullable.optional",
     type |-> "string",
     parent_id |-> "number.nullable.optional",
     layer_group_id |-> "number.nullable.optional",
     email |-> "string.nullable.optional",
     address |-> "string.nullable.optional",
     zip_code |-> "string.nullable.optional",
     town |-> "string.nullable.optional",
     country |-> "string.nullable.optional"]

LegacyEventDateSchema ==
    [id |-> "number",
     label |-> "string.nullable.optional",
     start_at |-> "string",
     finish_at |-> "string.nullable.optional",
     location |-> "string.nullable.optional"]

\* the scalar members of the flat EventSchema; dates and group_ids follow below
LegacyEventScalars ==
    [id |-> "number",
     name |-> "string",
     description |-> "string.nullable.optional",
     motto |-> "string.nullable.optional",
     cost |-> "string.nullable.optional",
     maximum_participants |-> "number.nullable.optional",
     participant_count |-> "number.nullable.optional",
     location |-> "string.nullable.optional",
     application_opening_at |-> "string.nullable.optional",
     application_closing_at |-> "string.nullable.optional",
     application_conditions |-> "string.nullable.optional",
     state |-> "string.nullable.optional"]

LegacyRoleSchema ==
    [id |-> "number",
     type |-> "string",
     name |-> "string.optional",
     person_id |-> "number",
     group_id |-> "number",
     created_at |-> "string",
     updated_at |-> "string",
     deleted_at |-> "string.nullable.optional"]

LegacyPersonAccepts(v) == ObjectAccepts(LegacyPersonSchema, v)
LegacyGroupAccepts(v) == ObjectAccepts(LegacyGroupSchema, v)
LegacyEventDateAccepts(v) == ObjectAccepts(LegacyEventDateSchema, v)
LegacyRoleAccepts(v) == ObjectAccepts(LegacyRoleSchema, v)
IsNumber(v) == v.k = "number"

\* z.array(item).optional().default([])
DefaultedArrayAccepts(v, ItemAccepts(_)) ==
    v.k = "undefined" \/ ArrayAccepts(v, ItemAccepts)

LegacyEventAccepts(v) ==
    /\ ObjectAccepts(LegacyEventScalars, v)
    /\ DefaultedArrayAccepts(Member(v, "dates"), LegacyEventDateAccepts)
    /\ DefaultedArrayAccepts(Member(v, "group_ids"), IsNumber)

LegacyEventOf(v) ==
    LET dates == Member(v, "dates")
        group_ids == Member(v, "group_ids")
        parsedDates == IF dates.k = "undefined" THEN <<>>
                       ELSE [i \in 1..Len(dates.items) |->
                               ObjectParsed(LegacyEventDateSchema, dates.items[i])]
        parsedGroupIds == IF group_ids.k = "undefined" THEN <<>> ELSE group_ids.items
    IN  ("dates" :> parsedDates @@ "group_ids" :> parsedGroupIds)
            @@ ObjectParsed(LegacyEventScalars, v)

LegacyPeopleResponseSchema(body) ==
    IF body.k = "object" /\ ArrayAccepts(Member(body, "people"), LegacyPersonAccepts)
    THEN LET people == Member(body, "people").items
         IN  Success([people |->
                        [i \in 1..Len(people) |-> ObjectParsed(LegacyPersonSchema, people[i])]])
    ELSE Failure

LegacyGroupResponseSchema(body) ==
    IF body.k = "object" /\ ArrayAccepts(Member(body, "groups"), LegacyGroupAccepts)
    THEN LET groups == Member(body, "groups").items
         IN  Success([groups |->
                        [i \in 1..Len(groups) |-> ObjectParsed(LegacyGroupSchema, groups[i])]])
    ELSE Failure

LegacyEventsResponseSchema(body) ==
    IF body.k = "object" /\ ArrayAccepts(Member(body, "events"), LegacyEventAccepts)
    THEN LET events == Member(body, "events").items
         IN  Success([events |-> [i \in 1..Len(events) |-> LegacyEventOf(events[i])]])
    ELSE Failure

LegacyRolesResponseSchema(body) ==
    IF body.k = "object" /\ ArrayAccepts(Member(body, "roles"), LegacyRoleAccepts)
    THEN LET roles == Member(body, "roles").items
         IN  Success([roles |->
                        [i \in 1..Len(roles) |-> ObjectParsed(LegacyRoleSchema, roles[i])]])
    ELSE Failure

----------------------------------------------------------------------------
(* HitobitoClient: construction, request, accessors                         *)

\* how an accessor call settles
Pending == [kind |-> "pending"]
Return(value) == [kind |-> "value", value |-> value]
Raise(error, message) == [kind |-> "error", error |-> error, message |-> message]

\* config.baseUrl.replace(/\/$/, ""): one trailing slash is removed
StripTrailingSlash(url) ==
    IF url # <<>> /\ url[Len(url)] = "/" THEN SubSeq(url, 1, Len(url) - 1) ELSE url

\* Response.ok
ResponseOk(status) == status >= 200 /\ status < 300

\* what request() does with the response of fetch (part_004): an error thrown,
\* or the promise of response.json()
JsonPromise == [kind |-> "json"]

\* the classification without the branch for 429
requestWithout429(resp) ==
    IF resp.status = 401 THEN Raise("UnauthorizedError", <<>>)
    ELSE IF resp.status = 403 THEN Raise("UnauthorizedError", <<"Forbidden: Access denied">>)
    ELSE IF resp.status = 404 THEN Raise("NotFoundError", <<>>)
    ELSE IF ~ResponseOk(resp.status)
         THEN Raise("Error", <<"HTTP ", ToString(resp.status), ": ", resp.statusText>>)
    ELSE JsonPromise

\* the classification without the last branch, for a response that is not ok
requestWithoutOk(resp) ==
    IF resp.status = 401 THEN Raise("UnauthorizedError", <<>>)
    ELSE IF resp.status = 403 THEN Raise("UnauthorizedError", <<"Forbidden: Access denied">>)
    ELSE IF resp.status = 404 THEN Raise("NotFoundError", <<>>)
    ELSE IF resp.status = 429 THEN Raise("RateLimitError", <<>>)
    ELSE JsonPromise

request(resp) ==
    IF resp.status = 401 THEN Raise("UnauthorizedError", <<>>)
    ELSE IF resp.status = 403 THEN Raise("UnauthorizedError", <<"Forbidden: Access denied">>)
    ELSE IF resp.status = 404 THEN Raise("NotFoundError", <<>>)
    ELSE IF resp.status = 429 THEN Raise("RateLimitError", <<>>)
    ELSE IF ~ResponseOk(resp.status)
         THEN Raise("Error", <<"HTTP ", ToString(resp.status), ": ", resp.statusText>>)
    ELSE JsonPromise

\* the same in src/src/client.ts, which has no branch for 403
LegacyRequest(resp) ==
    IF resp.status = 401 THEN Raise("UnauthorizedError", <<>>)
    ELSE IF resp.status = 404 THEN Raise("NotFoundError", <<>>)
    ELSE IF resp.status = 429 THEN Raise("RateLimitError", <<>>)
    ELSE IF ~ResponseOk(resp.status)
         THEN Raise("Error", <<"HTTP ", ToString(resp.status), ": ", resp.statusText>>)
    ELSE JsonPromise

\* fetch(`${this.baseUrl}/api${path}`, { headers })
FetchCall(url, tok, withContentType) ==
    [url |-> url,
     headers |-> IF withContentType
                 THEN ("X-Token" :> tok @@ "Accept" :> "application/json"
                         @@ "Content-Type" :> "application/vnd.api+json")
                 ELSE ("X-Token" :> tok @@ "Accept" :> "application/json")]

\* if (!parsed.success) throw new ValidationError(...); return parsed.data
\* An exception thrown inside safeParse leaves the accessor as it is.
Validated(parsed, label) ==
    IF parsed.thrown THEN Raise(parsed.error, <<>>)
    ELSE IF ~parsed.success THEN Raise("ValidationError", <<label, "ZodError.message">>)
    ELSE Return(parsed.data)

getPerson(data) == Validated(PersonSchema(data), "Invalid person response: ")
getGroup(data) == Validated(GroupSchema(data), "Invalid group response: ")
getPeopleInGroup(data) == Validated(PeopleResponseSchema(data), "Invalid people response: ")
getEvent(data) == Validated(EventSchema(data), "Invalid event response: ")
getEventsInGroup(data) == Validated(EventsResponseSchema(data), "Invalid events response: ")
getSubgroups(data) == Validated(GroupsResponseSchema(data), "Invalid groups response: ")
getRolesForPerson(data) == Validated(RolesResponseSchema(data), "Invalid roles response: ")

Path(accessor, args) ==
    CASE accessor = "getPerson" -> <<"/", "people", "/", ToString(args[1])>>
      [] accessor = "getGroup" -> <<"/", "groups", "/", ToString(args[1])>>
      [] accessor = "getPeopleInGroup" ->
            <<"/", "people", "?", "filter", "[", "primary_group_id", "]", "=",
              ToString(args[1])>>
      [] accessor = "getEvent" -> <<"/", "events", "/", ToString(args[1])>>
      [] accessor = "getEventsInGroup" ->
            <<"/", "events", "?", "filter", "[", "group_id", "]", "=", ToString(args[1])>>
      [] accessor = "getSubgroups" ->
            <<"/", "groups", "?", "filter", "[", "parent_id", "]", "=", ToString(args[1])>>
      [] accessor = "getRolesForPerson" ->
            <<"/", "roles", "?", "filter", "[", "person_id", "]", "=", ToString(args[1])>>

SchemaOf(accessor) ==
    CASE accessor = "getPerson" -> "PersonSchema"
      [] accessor = "getGroup" -> "GroupSchema"
      [] accessor = "getPeopleInGroup" -> "PeopleResponseSchema"
      [] accessor = "getEvent" -> "EventSchema"
      [] accessor = "getEventsInGroup" -> "EventsResponseSchema"
      [] accessor = "getSubgroups" -> "GroupsResponseSchema"
      [] accessor = "getRolesForPerson" -> "RolesResponseSchema"

Accessor(accessor, data) ==
    CASE accessor = "getPerson" -> getPerson(data)
      [] accessor = "getGroup" -> getGroup(data)
      [] accessor = "getPeopleInGroup" -> getPeopleInGroup(data)
      [] accessor = "getEvent" -> getEvent(data)
      [] accessor = "getEventsInGroup" -> getEventsInGroup(data)
      [] accessor = "getSubgroups" -> getSubgroups(data)
      [] accessor = "getRolesForPerson" -> getRolesForPerson(data)

(* src/src/client.ts *)

\* const x = parsed.data.<list>[0]; if (!x) throw new NotFoundError(...); return x
FirstOrNotFound(parsed, list, label, what, id) ==
    IF ~parsed.success THEN Raise("ValidationError", <<label, "ZodError.message">>)
    ELSE IF parsed.data[list] = <<>>
         THEN Raise("NotFoundError", <<what, ToString(id), " not found">>)
    ELSE Return(parsed.data[list][1])

AllOf(parsed, list, label) ==
    IF ~parsed.success THEN Raise("ValidationError", <<label, "ZodError.message">>)
    ELSE Return(parsed.data[list])

LegacyGetPerson(id, data) ==
    FirstOrNotFound(LegacyPeopleResponseSchema(data), "people",
                    "Invalid person response: ", "Person ", id)

LegacyGetGroup(id, data) ==
    FirstOrNotFound(LegacyGroupResponseSchema(data), "groups",
                    "Invalid group response: ", "Group ", id)

LegacyGetPeopleInGroup(data) ==
    AllOf(LegacyPeopleResponseSchema(data), "people", "Invalid people response: ")

LegacyGetEvent(eventId, data) ==
    FirstOrNotFound(LegacyEventsResponseSchema(data), "events",
                    "Invalid event response: ", "Event ", eventId)

LegacyGetEventsInGroup(data) ==
    AllOf(LegacyEventsResponseSchema(data), "events", "Invalid events response: ")

\* parsed.data.groups.filter((group) => group.parent_id === groupId)
LegacyGetSubgroups(groupId, data) ==
    LET parsed == LegacyGroupResponseSchema(data)
    IN  IF ~parsed.success
        THEN Raise("ValidationError", <<"Invalid group response: ", "ZodError.message">>)
        ELSE Return(SelectSeq(parsed.data.groups,
                              LAMBDA group : /\ "parent_id" \in DOMAIN group
                                             /\ group["parent_id"] = Num(groupId)))

LegacyGetRolesForPerson(data) ==
    AllOf(LegacyRolesResponseSchema(data), "roles", "Invalid roles response: ")

LegacyPath(accessor, args) ==
    CASE accessor = "getPerson" -> <<"/", "people", "/", ToString(args[1]), ".json">>
      [] accessor = "getGroup" -> <<"/", "groups", "/", ToString(args[1]), ".json">>
      [] accessor = "getPeopleInGroup" ->
            <<"/", "groups", "/", ToString(args[1]), "/", "people", ".json">>
      [] accessor = "getEvent" ->
            <<"/", "groups", "/", ToString(args[1]), "/", "events", "/", ToString(args[2]),
              ".json">>
      [] accessor = "getEventsInGroup" ->
            <<"/", "groups", "/", ToString(args[1]), "/", "events", ".json">>
      [] accessor = "getSubgroups" -> <<"/", "groups", "/", ToString(args[1]), ".json">>
      [] accessor = "getRolesForPerson" ->
            <<"/", "roles", ".json", "?", "filter", "[", "person_id", "]", "=",
              ToString(args[1])>>

LegacySchemaOf(accessor) ==
    CASE accessor \in {"getPerson", "getPeopleInGroup"} -> "legacy.PeopleResponseSchema"
      [] accessor \in {"getGroup", "getSubgroups"} -> "legacy.GroupResponseSchema"
      [] accessor \in {"getEvent", "getEventsInGroup"} -> "legacy.EventsResponseSchema"
      [] accessor = "getRolesForPerson" -> "legacy.RolesResponseSchema"

LegacyAccessor(accessor, args, data) ==
    CASE accessor = "getPerson" -> LegacyGetPerson(args[1], data)
      [] accessor = "getGroup" -> LegacyGetGroup(args[1], data)
      [] accessor = "getPeopleInGroup" -> LegacyGetPeopleInGroup(data)
      [] accessor = "getEvent" -> LegacyGetEvent(args[2], data)
      [] accessor = "getEventsInGroup" -> LegacyGetEventsInGroup(data)
      [] accessor = "getSubgroups" -> LegacyGetSubgroups(args[1], data)
      [] accessor = "getRolesForPerson" -> LegacyGetRolesForPerson(data)

----------------------------------------------------------------------------
(* The environment: configurations, calls and transport responses          *)

MaxSlashes == 2     \* most trailing slashes of a configured baseUrl

Variants == {"legacy", "jsonapi"}
Origin == "https://db.scout.ch"
Tokens == {"test-token"}
Ids == {1, 2}

ConfiguredBaseUrls == {<<Origin>> \o [i \in 1..n |-> "/"] : n \in 0..MaxSlashes}

Accessors ==
    {"getPerson", "getGroup", "getPeopleInGroup", "getEvent", "getEventsInGroup",
     "getSubgroups", "getRolesForPerson"}

\* getEvent(groupId, eventId) in src/src/client.ts, getEvent(eventId) in part_004
CallsOf(v) ==
    {[accessor |-> a, args |-> <<i>>] :
        a \in IF v = "legacy" THEN Accessors \ {"getEvent"} ELSE Accessors, i \in Ids}
        \cup IF v = "legacy"
             THEN {[accessor |-> "getEvent", args |-> <<g, e>>] : g \in Ids, e \in Ids}
             ELSE {}

NoCall == [accessor |-> "none", args |-> <<>>]

\* a body the transport cannot parse as JSON: response.json() rejects
Unparsable == [k |-> "unparsable"]

LegacyDocuments ==
    LET max == Obj("id" :> Num(1) @@ "first_name" :> Str("Max") @@ "last_name" :> Str("Muster"))
        anna == Obj("id" :> Num(2) @@ "first_name" :> Str("Anna") @@ "last_name" :> Str("Test"))
        kim == Obj("id" :> Str("3") @@ "first_name" :> Str("Kim") @@ "last_name" :> Str("Lang"))
        child == Obj("id" :> Num(2) @@ "name" :> Str("Child 1") @@ "type" :> Str("Group::Abteilung")
                       @@ "parent_id" :> Num(1))
        other == Obj("id" :> Num(3) @@ "name" :> Str("Other") @@ "type" :> Str("Group::Abteilung")
                       @@ "parent_id" :> Num(2))
        top == Obj("id" :> Num(1) @@ "name" :> Str("Top") @@ "type" :> Str("Group::Bund"))
        day == Obj("id" :> Num(10) @@ "start_at" :> Str("2024-07-01T00:00:00Z"))
        camp == Obj("id" :> Num(1) @@ "name" :> Str("Sommerlager") @@ "dates" :> Arr(<<day>>)
                      @@ "group_ids" :> Arr(<<Num(5)>>))
        hike == Obj("id" :> Num(2) @@ "name" :> Str("Wanderung"))
        admin == Obj("id" :> Num(1) @@ "type" :> Str("GroupAdmin") @@ "person_id" :> Num(1)
                       @@ "group_id" :> Num(7)
                       @@ "created_at" :> Str("2024-01-01T00:00:00Z")
                       @@ "updated_at" :> Str("2024-01-01T00:00:00Z"))
    IN  {Obj("people" :> Arr(p)) : p \in {<<>>, <<max>>, <<max, anna>>, <<max, kim>>}}
            \cup {Obj("groups" :> Arr(g)) : g \in {<<>>, <<top>>, <<child, other>>}}
            \cup {Obj("events" :> Arr(e)) : e \in {<<>>, <<camp>>, <<hike, camp>>}}
            \cup {Obj("roles" :> Arr(r)) : r \in {<<>>, <<admin>>}}

\* a few event documents for the accessor calls; the decoder harness runs the
\* whole EventDocuments family
SampleEventDocuments ==
    LET d1 == Reference(Str("1"), "event_dates")
        d2 == Reference(Str("2"), "event_dates")
        g5 == Reference(Str("5"), "groups")
        day(i) == Node(Str(i), "event_dates", DateAttributes)
        camp == EventNode(Str("1"), Relationships(ToMany(<<d2, d1>>), ToMany(<<g5>>)))
    IN  {Envelope(EventNode(Str("1"), Undefined), Undefined),
         Envelope(camp, Undefined),
         Envelope(camp, Arr(<<day("1"), day("2")>>)),
         Envelope(camp, Arr(<<Node(Str("1"), "event_dates", DateAttributesWithoutStart)>>)),
         Envelope(Arr(<<camp, EventNode(Str("2"), Undefined)>>), Arr(<<day("1")>>)),
         Envelope(Arr(<<camp, Node(Str("3"), "events", Obj(NoMembers))>>), Undefined)}

Documents ==
    SingleDocuments(PersonNodes) \cup SingleDocuments(GroupNodes)
        \cup ListDocuments(PersonNodes) \cup ListDocuments(GroupNodes)
        \cup ListDocuments(RoleNodes)
        \cup SampleEventDocuments \cup MalformedEventDocuments
        \cup LegacyDocuments

ReasonPhrase(status) ==
    CASE status = 200 -> "OK"
      [] status = 201 -> "Created"
      [] status = 304 -> "Not Modified"
      [] status = 400 -> "Bad Request"
      [] status = 401 -> "Unauthorized"
      [] status = 403 -> "Forbidden"
      [] status = 404 -> "Not Found"
      [] status = 429 -> "Too Many Requests"
      [] status = 500 -> "Internal Server Error"
      [] status = 503 -> "Service Unavailable"

FailureStatuses == {304, 400, 401, 403, 404, 429, 500, 503}

\* what fetch may resolve with: a 200 with any body, a 201 or a failure status
\* with an unparsable body or a well-formed person document
Responses ==
    {[status |-> 200, statusText |-> "OK", body |-> b] : b \in Documents \cup {Unparsable}}
        \cup {[status |-> st, statusText |-> IF plain THEN "" ELSE ReasonPhrase(st),
                body |-> b] :
                st \in FailureStatuses \cup {201},
                plain \in BOOLEAN,
                b \in {Unparsable,
                       Envelope(Node(Str("1"), "people",
                                     Obj("first_name" :> Str("Max")
                                           @@ "last_name" :> Str("Muster"))),
                                Undefined)}}

NoResponse == [status |-> 0, statusText |-> "", body |-> Unparsable]

----------------------------------------------------------------------------
(* The client as a state machine                                            *)

HarnessOff ==
    /\ stage = "off"
    /\ decoder = "none"
    /\ input = Undefined
    /\ output = Failure

ClientIdle ==
    /\ pc = "idle"
    /\ call = NoCall
    /\ requests = <<>>
    /\ response = NoResponse
    /\ schema = "none"
    /\ outcome = Pending

MaxCalls == 2     \* calls in flight on one client at a time

Slots == 1..MaxCalls

\* a call that has not begun
IdleSlot ==
    [pc |-> "idle", call |-> NoCall, request |-> NoCall, response |-> NoResponse,
     schema |-> "none", outcome |-> Pending]

NoneInFlight == inflight = [s \in Slots |-> IdleSlot]

\* new HitobitoClient({ baseUrl, token })
Init ==
    /\ variant \in Variants
    /\ \E configured \in ConfiguredBaseUrls : baseUrl = StripTrailingSlash(configured)
    /\ token \in Tokens
    /\ ClientIdle
    /\ HarnessOff
    /\ NoneInFlight

\* an accessor is called: it runs into request(), which calls fetch and awaits it
Call(c) ==
    /\ pc = "idle"
    /\ c \in CallsOf(variant)
    /\ pc' = "fetching"
    /\ call' = c
    /\ requests' =
          Append(requests,
                 IF variant = "legacy"
                 THEN FetchCall(baseUrl \o LegacyPath(c.accessor, c.args), token, FALSE)
                 ELSE FetchCall(baseUrl \o <<"/", "api">> \o Path(c.accessor, c.args), token, TRUE))
    /\ UNCHANGED <<variant, baseUrl, token, response, schema, outcome, harnessVars, inflight>>

\* request() with a retry: a 429 sends the same request again
RespondRetrying(r) ==
    /\ pc = "fetching"
    /\ response' = r
    /\ IF r.status = 429
       THEN /\ pc' = "fetching"
            /\ outcome' = outcome
            /\ requests' = Append(requests, requests[Len(requests)])
       ELSE /\ LET step == IF variant = "legacy" THEN LegacyRequest(r) ELSE request(r)
               IN  IF step.kind = "error"
                   THEN pc' = "done" /\ outcome' = step
                   ELSE pc' = "reading" /\ outcome' = outcome
            /\ requests' = requests
    /\ UNCHANGED <<variant, baseUrl, token, call, schema, harnessVars, inflight>>

\* fetch resolves: request() classifies the status and either throws, which
\* rejects the accessor's promise, or returns response.json()
Respond(r) ==
    /\ pc = "fetching"
    /\ response' = r
    /\ LET step == IF variant = "legacy" THEN LegacyRequest(r) ELSE request(r)
       IN  IF step.kind = "error"
           THEN pc' = "done" /\ outcome' = step
           ELSE pc' = "reading" /\ outcome' = outcome
    /\ UNCHANGED <<variant, baseUrl, token, call, requests, schema, harnessVars, inflight>>

\* fetch rejects (no connection): the rejection passes through request() and
\* the accessor
FetchRejects ==
    /\ pc = "fetching"
    /\ pc' = "done"
    /\ outcome' = Raise("TypeError", <<"fetch failed">>)
    /\ UNCHANGED <<variant, baseUrl, token, call, requests, response, schema, harnessVars, inflight>>

\* response.json() settles: a rejection passes through; a parsed body goes to
\* the accessor's schema and the accessor settles
ReadBody ==
    /\ pc = "reading"
    /\ pc' = "done"
    /\ IF response.body = Unparsable
       THEN /\ outcome' = Raise("SyntaxError", <<"Unexpected token">>)
            /\ schema' = schema
       ELSE /\ outcome' = IF variant = "legacy"
                          THEN LegacyAccessor(call.accessor, call.args, response.body)
                          ELSE Accessor(call.accessor, response.body)
            /\ schema' = IF variant = "legacy"
                         THEN LegacySchemaOf(call.accessor)
                         ELSE SchemaOf(call.accessor)
    /\ UNCHANGED <<variant, baseUrl, token, call, requests, response, harnessVars, inflight>>

\* the caller has the result; the client is ready for the next call
Settled ==
    /\ pc = "done"
    /\ pc' = "idle"
    /\ call' = NoCall
    /\ requests' = <<>>
    /\ response' = NoResponse
    /\ schema' = "none"
    /\ outcome' = Pending
    /\ UNCHANGED <<variant, baseUrl, token, harnessVars, inflight>>

Next ==
    \/ \E c \in CallsOf(variant) : Call(c)
    \/ \E r \in Responses : Respond(r)
    \/ FetchRejects
    \/ ReadBody
    \/ Settled

Spec == Init /\ [][Next]_vars

\* the promise of fetch settles
TransportSettles == (\E r \in Responses : Respond(r)) \/ FetchRejects

\* The client under a transport that settles every fetch and every
\* response.json(): the awaits of request() and of the accessor resume.
SpecFair == Spec /\ WF_vars(TransportSettles) /\ WF_vars(ReadBody)

----------------------------------------------------------------------------
(* Concurrent calls on one client.  An async method runs without            *)
(* interruption from one await to the next, so a call takes the steps of    *)
(* Call, Respond, FetchRejects, ReadBody and Settled, and the steps of       *)
(* different calls interleave in any order.                                  *)

ConcurrentTokens == {"test-token", "other-token"}

ConcurrentCalls ==
    {[accessor |-> "getPerson", args |-> <<1>>],
     [accessor |-> "getPerson", args |-> <<2>>],
     [accessor |-> "getPeopleInGroup", args |-> <<1>>]}

ConcurrentBodies ==
    LET person(id, name) ==
            Node(Str(id), "people", Obj("first_name" :> Str(name) @@ "last_name" :> Str("Muster")))
        flat(id, name) ==
            Obj("id" :> Num(id) @@ "first_name" :> Str(name) @@ "last_name" :> Str("Muster"))
    IN  {Unparsable,
         Envelope(person("1", "Max"), Undefined),
         Envelope(Arr(<<person("1", "Max"), person("2", "Anna")>>), Undefined),
         Obj("people" :> Arr(<<flat(1, "Max")>>)),
         Obj("people" :> Arr(<<>>))}

ConcurrentResponses ==
    {[status |-> 200, statusText |-> "OK", body |-> b] : b \in ConcurrentBodies}
        \cup {[status |-> st, statusText |-> ReasonPhrase(st), body |-> Unparsable] :
                st \in {404, 500}}

\* fetch(url, { headers }) as request() of the constructed class calls it
Fetch(c) ==
    IF variant = "legacy"
    THEN FetchCall(baseUrl \o LegacyPath(c.accessor, c.args), token, FALSE)
    ELSE FetchCall(baseUrl \o <<"/", "api">> \o Path(c.accessor, c.args), token, TRUE)

InitConcurrent ==
    /\ variant \in Variants
    /\ \E configured \in ConfiguredBaseUrls : baseUrl = StripTrailingSlash(configured)
    /\ token \in ConcurrentTokens
    /\ ClientIdle
    /\ HarnessOff
    /\ NoneInFlight

Step(s, slot) ==
    /\ inflight' = [inflight EXCEPT ![s] = slot]
    /\ UNCHANGED <<clientVars, harnessVars>>

\* an accessor is called while others are in flight
Begin(s, c) ==
    /\ inflight[s].pc = "idle"
    /\ Step(s, [inflight[s] EXCEPT !.pc = "fetching", !.call = c, !.request = Fetch(c)])

\* the fetch of call s resolves
Resolve(s, r) ==
    /\ inflight[s].pc = "fetching"
    /\ LET step == IF variant = "legacy" THEN LegacyRequest(r) ELSE request(r)
       IN  IF step.kind = "error"
           THEN Step(s, [inflight[s] EXCEPT !.pc = "done", !.response = r, !.outcome = step])
           ELSE Step(s, [inflight[s] EXCEPT !.pc = "reading", !.response = r])

\* the fetch of call s rejects
Reject(s) ==
    /\ inflight[s].pc = "fetching"
    /\ Step(s, [inflight[s] EXCEPT !.pc = "done",
                                   !.outcome = Raise("TypeError", <<"fetch failed">>)])

\* what the accessor of call c makes of a body that response.json() read
Decoding(c, body) ==
    IF body = Unparsable THEN Raise("SyntaxError", <<"Unexpected token">>)
    ELSE IF variant = "legacy" THEN LegacyAccessor(c.accessor, c.args, body)
    ELSE Accessor(c.accessor, body)

\* a client that keeps the last response in a field of its own: a call reads
\* the body of the response another call has received
ReadShared(s) ==
    /\ inflight[s].pc = "reading"
    /\ LET others == {t \in Slots \ {s} : inflight[t].pc \in {"reading", "done"}
                                          /\ inflight[t].response # NoResponse}
           from == IF others = {} THEN s ELSE CHOOSE t \in others : TRUE
       IN  Step(s, [inflight[s] EXCEPT
                       !.pc = "done",
                       !.outcome = Decoding(inflight[s].call, inflight[from].response.body),
                       !.schema = "applied"])

\* response.json() of call s settles and the accessor of call s finishes
Read(s) ==
    /\ inflight[s].pc = "reading"
    /\ Step(s, [inflight[s] EXCEPT
                    !.pc = "done",
                    !.outcome = Decoding(inflight[s].call, inflight[s].response.body),
                    !.schema = IF inflight[s].response.body = Unparsable
                               THEN "none" ELSE "applied"])

\* the caller of call s has its result
End(s) ==
    /\ inflight[s].pc = "done"
    /\ Step(s, IdleSlot)

NextConcurrent ==
    \/ \E s \in Slots, c \in ConcurrentCalls : Begin(s, c)
    \/ \E s \in Slots, r \in ConcurrentResponses : Resolve(s, r)
    \/ \E s \in Slots : Reject(s)
    \/ \E s \in Slots : Read(s)
    \/ \E s \in Slots : End(s)

SpecConcurrent == InitConcurrent /\ [][NextConcurrent]_vars

----------------------------------------------------------------------------
(* The decoders on their own: a document is drawn, the schema is applied    *)

InitDecode ==
    /\ variant = "jsonapi"
    /\ baseUrl = <<Origin>>
    /\ token \in Tokens
    /\ ClientIdle
    /\ stage = "input"
    /\ decoder \in Decoders
    /\ input \in DocumentsFor(decoder)
    /\ output = Failure
    /\ NoneInFlight

Apply(d, result) ==
    /\ stage = "input"
    /\ decoder = d
    /\ stage' = "parsed"
    /\ output' = result
    /\ UNCHANGED <<decoder, input, clientVars, inflight>>

ParsePerson == Apply("PersonSchema", PersonSchema(input))
ParseGroup == Apply("GroupSchema", GroupSchema(input))
ParseEvent == Apply("EventSchema", EventSchema(input))
ParsePeople == Apply("PeopleResponseSchema", PeopleResponseSchema(input))
ParseGroups == Apply("GroupsResponseSchema", GroupsResponseSchema(input))
ParseEvents == Apply("EventsResponseSchema", EventsResponseSchema(input))
ParseRoles == Apply("RolesResponseSchema", RolesResponseSchema(input))

NextDecode ==
    \/ ParsePerson
    \/ ParseGroup
    \/ ParseEvent
    \/ ParsePeople
    \/ ParseGroups
    \/ ParseEvents
    \/ ParseRoles

SpecDecode == InitDecode /\ [][NextDecode]_vars

----------------------------------------------------------------------------
(* Properties of the decoders (checked under SpecDecode)                    *)

\* The number an id of the documents stands for, read off the document text.
IdValue(raw) ==
    CASE raw.k = "number" -> raw.n
      [] raw = Str("1") -> 1
      [] raw = Str("2") -> 2
      [] raw = Str("3") -> 3
      [] raw = Str("4") -> 4
      [] raw = Str("5") -> 5
      [] raw = Str("7") -> 7
      [] raw = Str("12") -> 12
      [] raw = Str("0") -> 0
      [] raw = Str("-1") -> -1
      [] raw = Str("") -> 0
      [] raw = Null -> 0

EventDecoders == {"EventSchema", "EventsResponseSchema"}
EventDecoded == stage = "parsed" /\ decoder \in EventDecoders /\ output.success

\* the primary nodes of the document and the entities decoded from them
PrimaryNodes == IF decoder = "EventSchema" THEN <<input.m.data>> ELSE input.m.data.items
Entities == IF decoder = "EventSchema" THEN <<output.data>> ELSE output.data

TableOf(doc) ==
    IF "included" \in DOMAIN doc.m THEN doc.m.included.items ELSE <<>>

ReferencesOf(node, name) ==
    IF "relationships" \in DOMAIN node.m /\ name \in DOMAIN node.m.relationships.m
    THEN node.m.relationships.m[name].m.data.items
    ELSE <<>>

RefId(x) == IdValue(x.m.id)
RefType(x) == x.m.type.s

Decode(d, doc) ==
    IF d = "EventSchema" THEN EventSchema(doc) ELSE EventsResponseSchema(doc)

DatesOf(d, result, i) == IF d = "EventSchema" THEN result.data["dates"] ELSE result.data[i]["dates"]

Reorderings(seq) ==
    {[i \in 1..Len(seq) |-> seq[p[i]]] :
        p \in {q \in [1..Len(seq) -> 1..Len(seq)] : \A a, b \in 1..Len(seq) : a # b => q[a] # q[b]}}

WithIncluded(doc, table) == Obj(("included" :> Arr(table)) @@ doc.m)

WithDateReferences(node, refs) ==
    Obj(("relationships" :> Obj(("dates" :> ToMany(refs)) @@ node.m.relationships.m)) @@ node.m)

WithPrimary(d, doc, i, node) ==
    IF d = "EventSchema" THEN Obj(("data" :> node) @@ doc.m)
    ELSE Obj(("data" :> Arr([doc.m.data.items EXCEPT ![i] = node])) @@ doc.m)

\* position of the first reference to id in refs (Len + 1 when there is none)
FirstReference(refs, id) ==
    IF \E p \in 1..Len(refs) : RefId(refs[p]) = id
    THEN CHOOSE p \in 1..Len(refs) :
            /\ RefId(refs[p]) = id
            /\ \A q \in 1..(p - 1) : RefId(refs[q]) # id
    ELSE Len(refs) + 1

\* C3 as stated: the dates of a decoded event are listed in the order of the
\* references of relationships.dates.data, and permuting `included` does not
\* change them.
C3_DatesInReferenceOrder ==
    EventDecoded =>
        \A i \in 1..Len(Entities) :
            LET dates == Entities[i]["dates"]
                refs == ReferencesOf(PrimaryNodes[i], "dates")
            IN  /\ \A a, b \in 1..Len(dates) :
                        a < b => FirstReference(refs, dates[a]["id"].n)
                                    <= FirstReference(refs, dates[b]["id"].n)
                /\ \A table \in Reorderings(TableOf(input)) :
                        DatesOf(decoder, Decode(decoder, WithIncluded(input, table)), i) = dates

\* dates is listed in the order of `included`: its entries are taken from nodes
\* of strictly increasing position
InTableOrder(dates, table) ==
    \E f \in [1..Len(dates) -> 1..Len(table)] :
        /\ \A a, b \in 1..Len(dates) : a < b => f[a] < f[b]
        /\ \A a \in 1..Len(dates) :
              /\ RefId(table[f[a]]) = dates[a]["id"].n
              /\ RefType(table[f[a]]) = "event_dates"

\* C3 amended: the dates of a decoded event are listed in the order in which the
\* matching nodes appear in `included`, for every permutation of the references
\* of relationships.dates.data (the order of the references has no influence).
C3_DatesInIncludedOrder ==
    EventDecoded =>
        \A i \in 1..Len(Entities) :
            LET dates == Entities[i]["dates"]
                refs == ReferencesOf(PrimaryNodes[i], "dates")
            IN  /\ InTableOrder(dates, TableOf(input))
                /\ refs # <<>> =>
                     \A r \in Reorderings(refs) :
                        DatesOf(decoder,
                                Decode(decoder,
                                       WithPrimary(decoder, input, i,
                                                   WithDateReferences(PrimaryNodes[i], r))),
                                i) = dates

\* C3 witness: references listed 2, 1 against an included table listing 1, 2:
\* the decoded dates are 1, 2
C3_Witness ==
    /\ EventDecoded
    /\ \E i \in 1..Len(Entities) :
          LET refs == ReferencesOf(PrimaryNodes[i], "dates")
              dates == Entities[i]["dates"]
          IN  /\ Len(refs) = 2 /\ RefId(refs[1]) = 2 /\ RefId(refs[2]) = 1
              /\ Len(dates) = 2 /\ dates[1]["id"] = Num(1) /\ dates[2]["id"] = Num(2)

\* how many elements of seq satisfy Test
Count(seq, Test(_)) == Cardinality({p \in 1..Len(seq) : Test(seq[p])})

DateReferencesTo(refs, id) ==
    Count(refs, LAMBDA r : RefId(r) = id /\ RefType(r) = "event_dates")
OtherReferencesTo(refs, id) ==
    Count(refs, LAMBDA r : RefId(r) = id /\ RefType(r) # "event_dates")
DateNodesWith(table, id) ==
    Count(table, LAMBDA n : RefId(n) = id /\ RefType(n) = "event_dates")
EntriesWith(entries, id) == Count(entries, LAMBDA e : e["id"].n = id)
IdsEqual(ids, id) == Count(ids, LAMBDA g : g.n = id)
ReferencedIds(refs) == {RefId(refs[p]) : p \in 1..Len(refs)}

\* k references to a group give k equal entries of group_ids
GroupIdsRepeat(node, entity) ==
    LET refs == ReferencesOf(node, "groups")
    IN  \A id \in ReferencedIds(refs) :
            IdsEqual(entity["group_ids"], id) = Count(refs, LAMBDA r : RefId(r) = id)

\* C4 as stated: a date reference listed k times whose node is present in
\* `included` gives k entries of dates, and a group reference listed k times
\* gives k equal entries of group_ids.
C4_DuplicateReferencesRepeat ==
    EventDecoded =>
        \A i \in 1..Len(Entities) :
            LET refs == ReferencesOf(PrimaryNodes[i], "dates")
            IN  /\ \A id \in ReferencedIds(refs) :
                        (/\ DateReferencesTo(refs, id) >= 1
                         /\ OtherReferencesTo(refs, id) = 0
                         /\ DateNodesWith(TableOf(input), id) = 1)
                        => EntriesWith(Entities[i]["dates"], id) = DateReferencesTo(refs, id)
                /\ GroupIdsRepeat(PrimaryNodes[i], Entities[i])

\* C4 amended: a date reference listed k >= 1 times gives as many entries of
\* dates as `included` holds event_dates nodes of that id (one entry for one
\* node, whatever k is); a group reference listed k times gives k equal
\* entries of group_ids.
C4_DatesOncePerNode ==
    EventDecoded =>
        \A i \in 1..Len(Entities) :
            LET refs == ReferencesOf(PrimaryNodes[i], "dates")
            IN  /\ \A id \in ReferencedIds(refs) :
                        DateReferencesTo(refs, id) >= 1
                        => EntriesWith(Entities[i]["dates"], id)
                              = DateNodesWith(TableOf(input), id)
                /\ GroupIdsRepeat(PrimaryNodes[i], Entities[i])

\* C4 witness: date 1 referenced twice with its node included once gives one
\* entry; group 5 referenced twice gives two entries
C4_Witness ==
    /\ EventDecoded
    /\ \E i \in 1..Len(Entities) :
          /\ DateReferencesTo(ReferencesOf(PrimaryNodes[i], "dates"), 1) = 2
          /\ DateNodesWith(TableOf(input), 1) = 1
          /\ EntriesWith(Entities[i]["dates"], 1) = 1
          /\ Count(ReferencesOf(PrimaryNodes[i], "groups"), LAMBDA r : RefId(r) = 5) = 2
          /\ Entities[i]["group_ids"] = <<Num(5), Num(5)>>

\* documents whose nodes and references can be read off as (type, id) pairs
KnownIds == {Str(i) : i \in {"1", "2", "3", "4", "5", "7", "12"}}

ReadableReference(r) ==
    /\ r.k = "object"
    /\ {"id", "type"} \subseteq DOMAIN r.m
    /\ r.m.type.k = "string"
    /\ (r.m.id.k = "number" \/ r.m.id \in KnownIds)

ReadableNode(n) ==
    /\ ReadableReference(n)
    /\ "relationships" \in DOMAIN n.m =>
          /\ n.m.relationships.k = "object"
          /\ \A name \in DOMAIN n.m.relationships.m :
                LET rel == n.m.relationships.m[name]
                IN  /\ rel.k = "object"
                    /\ "data" \in DOMAIN rel.m
                    /\ rel.m.data.k = "array"
                    /\ \A p \in 1..Len(rel.m.data.items) :
                          ReadableReference(rel.m.data.items[p])

ReadableDocument(d, doc) ==
    /\ doc.k = "object"
    /\ "data" \in DOMAIN doc.m
    /\ IF d = "EventSchema" THEN ReadableNode(doc.m.data)
       ELSE /\ doc.m.data.k = "array"
            /\ \A p \in 1..Len(doc.m.data.items) : ReadableNode(doc.m.data.items[p])
    /\ "included" \in DOMAIN doc.m =>
          /\ doc.m.included.k = "array"
          /\ \A p \in 1..Len(doc.m.included.items) : ReadableReference(doc.m.included.items[p])

NodesOf(d, doc) == IF d = "EventSchema" THEN <<doc.m.data>> ELSE doc.m.data.items

\* a reference is unmatched when `included` holds no node of its id
HasNode(ref, table) == \E p \in 1..Len(table) : RefId(table[p]) = RefId(ref)

\* the node without its unmatched date references
StripNode(node, table) ==
    IF ReferencesOf(node, "dates") = <<>> THEN node
    ELSE WithDateReferences(node,
             SelectSeq(ReferencesOf(node, "dates"), LAMBDA r : HasNode(r, table)))

StripDocument(d, doc) ==
    IF d = "EventSchema"
    THEN Obj(("data" :> StripNode(doc.m.data, TableOf(doc))) @@ doc.m)
    ELSE Obj(("data" :> Arr([p \in 1..Len(doc.m.data.items) |->
                                StripNode(doc.m.data.items[p], TableOf(doc))]))
                @@ doc.m)

\* C5: an event envelope that decodes once its unmatched date references are
\* taken out also decodes with them (an absent `included` leaves every reference
\* unmatched); the unmatched references add nothing to dates, every entry of
\* dates belongs to a reference with a node in `included`, and every reference
\* to an included event_dates node has its entry.
C5_UnmatchedReferencesDropped ==
    (stage = "parsed" /\ decoder \in EventDecoders /\ ReadableDocument(decoder, input)) =>
        LET stripped == Decode(decoder, StripDocument(decoder, input))
            table == TableOf(input)
        IN  stripped.success =>
              /\ output.success
              /\ \A i \in 1..Len(Entities) :
                    LET dates == Entities[i]["dates"]
                        refs == ReferencesOf(NodesOf(decoder, input)[i], "dates")
                    IN  /\ dates = DatesOf(decoder, stripped, i)
                        /\ \A a \in 1..Len(dates) :
                              \E p \in 1..Len(refs) :
                                  RefId(refs[p]) = dates[a]["id"].n /\ HasNode(refs[p], table)
                        /\ \A p \in 1..Len(refs) :
                              (RefType(refs[p]) = "event_dates"
                                 /\ DateNodesWith(table, RefId(refs[p])) >= 1)
                              => EntriesWith(dates, RefId(refs[p])) >= 1

\* C5 witness: two dates are referenced, `included` holds the node of one of
\* them only, and the event decodes with that single date
C5_Witness ==
    /\ EventDecoded
    /\ \E i \in 1..Len(Entities) :
          LET refs == ReferencesOf(PrimaryNodes[i], "dates")
          IN  /\ Len(refs) = 2
              /\ \E p \in 1..Len(refs) : ~HasNode(refs[p], TableOf(input))
              /\ \E p \in 1..Len(refs) : HasNode(refs[p], TableOf(input))
              /\ Len(Entities[i]["dates"]) = 1

\* the included node an entry of dates was built from
BuiltFrom(entry, node) ==
    /\ RefId(node) = entry["id"].n
    /\ "attributes" \in DOMAIN node.m
    /\ "start_at" \in DOMAIN node.m.attributes.m
    /\ node.m.attributes.m.start_at = entry["start_at"]

\* C6 as stated: every entry of dates is built from an included node for which
\* some reference of relationships.dates.data has the same type and the same id.
C6_MatchByTypeAndId ==
    EventDecoded =>
        \A i \in 1..Len(Entities) :
            LET dates == Entities[i]["dates"]
                refs == ReferencesOf(PrimaryNodes[i], "dates")
                table == TableOf(input)
            IN  \A a \in 1..Len(dates) :
                    \E p \in 1..Len(table) :
                        /\ BuiltFrom(dates[a], table[p])
                        /\ \E r \in 1..Len(refs) :
                              /\ RefType(refs[r]) = RefType(table[p])
                              /\ RefId(refs[r]) = RefId(table[p])

\* C6 amended: an included node contributes to dates only if its type is
\* event_dates and some reference of relationships.dates.data has the same id;
\* the type of the reference is not compared, so every included event_dates
\* node whose id is referenced, under whatever type, contributes.
C6_MatchByNodeTypeAndId ==
    EventDecoded =>
        \A i \in 1..Len(Entities) :
            LET dates == Entities[i]["dates"]
                refs == ReferencesOf(PrimaryNodes[i], "dates")
                table == TableOf(input)
            IN  /\ \A a \in 1..Len(dates) :
                      \E p \in 1..Len(table) :
                          /\ BuiltFrom(dates[a], table[p])
                          /\ RefType(table[p]) = "event_dates"
                          /\ \E r \in 1..Len(refs) : RefId(refs[r]) = RefId(table[p])
                /\ \A p \in 1..Len(table) :
                      (/\ RefType(table[p]) = "event_dates"
                       /\ \E r \in 1..Len(refs) : RefId(refs[r]) = RefId(table[p]))
                      => \E a \in 1..Len(dates) : BuiltFrom(dates[a], table[p])

\* C6 witness: the only reference to id 1 has type groups, the included node 1
\* has type event_dates, and dates holds the entry built from it
C6_Witness ==
    /\ EventDecoded
    /\ \E i \in 1..Len(Entities) :
          LET refs == ReferencesOf(PrimaryNodes[i], "dates")
              table == TableOf(input)
          IN  /\ refs # <<>>
              /\ \A r \in 1..Len(refs) : RefType(refs[r]) = "groups" /\ RefId(refs[r]) = 1
              /\ Len(Entities[i]["dates"]) = 1
              /\ \E p \in 1..Len(table) :
                    RefType(table[p]) = "event_dates" /\ BuiltFrom(Entities[i]["dates"][1], table[p])

WithoutIncluded(doc) == Obj([key \in DOMAIN doc.m \ {"included"} |-> doc.m[key]])

GroupIdsOf(d, result, i) ==
    IF d = "EventSchema" THEN result.data["group_ids"] ELSE result.data[i]["group_ids"]

\* C7: group_ids of a decoded event is the sequence of the numeric ids of
\* relationships.groups.data, in that order and of that length, and decoding the
\* same document with `included` absent or empty gives the same group_ids.
C7_GroupIdsFromReferences ==
    EventDecoded =>
        \A i \in 1..Len(Entities) :
            LET ids == Entities[i]["group_ids"]
                refs == ReferencesOf(PrimaryNodes[i], "groups")
            IN  /\ Len(ids) = Len(refs)
                /\ \A p \in 1..Len(refs) : ids[p] = Num(RefId(refs[p]))
                /\ GroupIdsOf(decoder, Decode(decoder, WithoutIncluded(input)), i) = ids
                /\ GroupIdsOf(decoder, Decode(decoder, WithIncluded(input, <<>>)), i) = ids

\* C7 witness: groups 7, 5 are referenced, `included` holds a groups node, and
\* group_ids is 7, 5
C7_Witness ==
    /\ EventDecoded
    /\ \E i \in 1..Len(Entities) :
          LET refs == ReferencesOf(PrimaryNodes[i], "groups")
          IN  /\ Len(refs) = 2 /\ RefId(refs[1]) = 7 /\ RefId(refs[2]) = 5
              /\ Entities[i]["group_ids"] = <<Num(7), Num(5)>>
              /\ \E p \in 1..Len(TableOf(input)) : RefType(TableOf(input)[p]) = "groups"

ListDecoders ==
    {"PeopleResponseSchema", "GroupsResponseSchema", "EventsResponseSchema",
     "RolesResponseSchema"}

IsListDocument(doc) == doc.k = "object" /\ "data" \in DOMAIN doc.m /\ doc.m.data.k = "array"

\* the single-resource decoding of one primary node of a list document
DecodedAlone(d, doc, node) ==
    CASE d = "PeopleResponseSchema" -> PersonSchema(Obj("data" :> node))
      [] d = "GroupsResponseSchema" -> GroupSchema(Obj("data" :> node))
      [] d = "EventsResponseSchema" -> EventSchema(Obj(("data" :> node) @@ doc.m))
      [] OTHER -> Failure

\* C8: a list document whose every primary node decodes on its own decodes to
\* the sequence of those entities, of the length of data and in its order; any
\* decoded list has the length of data and, at each position, the id of the
\* node at that position; an empty data array decodes to the empty sequence.
C8_ListPreservesOrderAndLength ==
    (stage = "parsed" /\ decoder \in ListDecoders /\ IsListDocument(input)) =>
        LET nodes == input.m.data.items
        IN  /\ output.success =>
                  /\ Len(output.data) = Len(nodes)
                  /\ \A p \in 1..Len(nodes) : output.data[p]["id"] = Num(IdValue(nodes[p].m.id))
            /\ (/\ decoder # "RolesResponseSchema"
                /\ nodes # <<>>
                /\ \A p \in 1..Len(nodes) : DecodedAlone(decoder, input, nodes[p]).success)
               => /\ output.success
                  /\ \A p \in 1..Len(nodes) :
                        output.data[p] = DecodedAlone(decoder, input, nodes[p]).data
            /\ nodes = <<>> =>
                  (output.success /\ output.data = <<>>) \/ "included" \in DOMAIN input.m

\* C8 witness: people 2, 1 decode to the entities 2, 1
C8_Witness ==
    /\ stage = "parsed"
    /\ decoder = "PeopleResponseSchema"
    /\ output.success
    /\ Len(output.data) = 2
    /\ output.data[1]["id"] = Num(2)
    /\ output.data[2]["id"] = Num(1)
    /\ output.data[2]["first_name"] = Str("Max")

----------------------------------------------------------------------------
(* Claims about the accessors                                               *)

\* the call has settled on a response of the transport
Answered == pc = "done" /\ response # NoResponse

\* the call has settled after its schema was applied to the parsed body
Decoded == pc = "done" /\ schema # "none"

Failed(error) == outcome.kind = "error" /\ outcome.error = error

Contains(message, part) == \E p \in 1..Len(message) : message[p] = part

\* C1: every accessor call answered with status 401 or 403 fails with an
\* UnauthorizedError.
C1_UnauthorizedOn401And403 ==
    (Answered /\ response.status \in {401, 403}) => Failed("UnauthorizedError")

ErrorKinds == {"UnauthorizedError", "NotFoundError", "RateLimitError", "Error"}

\* C2: an accessor call answered with a non-2xx status fails with one of the
\* client's error kinds before any body is read: NotFoundError on 404,
\* RateLimitError on 429, and on every status other than 401, 403, 404 and 429
\* the generic Error whose message contains the status code and the status
\* text; NotFoundError and RateLimitError come from no other status.
C2_StatusClassification ==
    (Answered /\ ~ResponseOk(response.status)) =>
        /\ outcome.kind = "error"
        /\ outcome.error \in ErrorKinds
        /\ schema = "none"
        /\ outcome.error = "NotFoundError" <=> response.status = 404
        /\ outcome.error = "RateLimitError" <=> response.status = 429
        /\ outcome.error = "UnauthorizedError" => response.status \in {401, 403}
        /\ response.status \notin {401, 403, 404, 429} =>
              /\ outcome.error = "Error"
              /\ Contains(outcome.message, ToString(response.status))
              /\ Contains(outcome.message, response.statusText)

\* C2 witness: status 503 with its reason phrase has failed a call with the
\* generic error "HTTP 503: Service Unavailable"
C2_Witness ==
    /\ Answered
    /\ response.status = 503
    /\ Failed("Error")
    /\ outcome.message = <<"HTTP ", "503", ": ", "Service Unavailable">>

ListAccessors == {"getPeopleInGroup", "getEventsInGroup", "getSubgroups", "getRolesForPerson"}

\* the type tag of the primary nodes an accessor expects, which also names the
\* list member of the bodies src/src/client.ts reads
ExpectedType(accessor) ==
    CASE accessor \in {"getPerson", "getPeopleInGroup"} -> "people"
      [] accessor \in {"getGroup", "getSubgroups"} -> "groups"
      [] accessor \in {"getEvent", "getEventsInGroup"} -> "events"
      [] accessor = "getRolesForPerson" -> "roles"

RequiredAttributes(type) ==
    CASE type = "people" -> {"first_name", "last_name"}
      [] type = "groups" -> {"name"}
      [] type = "events" -> {"name"}
      [] type = "roles" -> {}

\* a primary node with the wrong type tag, or with a required attribute that is
\* missing or not a string
MalformedNode(type, node) ==
    \/ Member(node, "type") # Str(type)
    \/ \E a \in RequiredAttributes(type) : Member(Member(node, "attributes"), a).k # "string"

\* the same for an entry of a flat list body: a required member that is missing
\* or not a string, or an id that is not a number
MalformedEntry(type, entry) ==
    \/ Member(entry, "id").k # "number"
    \/ \E a \in RequiredAttributes(type) : Member(entry, a).k # "string"

HasMalformedNode(v, type, body) ==
    LET list == Member(body, IF v = "legacy" THEN type ELSE "data")
    IN  /\ list.k = "array"
        /\ \E p \in 1..Len(list.items) :
              IF v = "legacy" THEN MalformedEntry(type, list.items[p])
              ELSE MalformedNode(type, list.items[p])

\* C9: a list accessor whose body holds a malformed primary node fails with a
\* ValidationError, whatever the other nodes are.
C9_MalformedNodeFailsList ==
    (/\ Decoded
     /\ call.accessor \in ListAccessors
     /\ HasMalformedNode(variant, ExpectedType(call.accessor), response.body))
    => Failed("ValidationError")

\* C9 witness: getPeopleInGroup has failed with a ValidationError on a body of
\* two nodes, the first well-formed and the second malformed
C9_Witness ==
    /\ Decoded
    /\ variant = "jsonapi"
    /\ call.accessor = "getPeopleInGroup"
    /\ Failed("ValidationError")
    /\ LET list == Member(response.body, "data")
       IN  /\ list.k = "array"
           /\ Len(list.items) = 2
           /\ ~MalformedNode("people", list.items[1])
           /\ PersonSchema(Obj("data" :> list.items[1])).success
           /\ MalformedNode("people", list.items[2])

SingleAccessors == {"getPerson", "getGroup", "getEvent"}

\* C10: a single-resource accessor whose body has no data member, or whose
\* data.type is not the type the accessor expects, fails with a
\* ValidationError.
C10_SingleAccessorValidatesData ==
    (/\ Decoded
     /\ call.accessor \in SingleAccessors
     /\ Member(Member(response.body, "data"), "type") # Str(ExpectedType(call.accessor)))
    => Failed("ValidationError")

----------------------------------------------------------------------------
(* Claims about the decoded entities                                        *)

SingleDecoders == {"PersonSchema", "GroupSchema", "EventSchema"}

\* a document has been decoded into entities
AnyDecoded == stage = "parsed" /\ output.success

\* the entities of the decoded document and the primary nodes they come from
DecodedEntities == IF decoder \in SingleDecoders THEN <<output.data>> ELSE output.data
DecodedNodes == IF decoder \in SingleDecoders THEN <<input.m.data>> ELSE input.m.data.items

\* the decimal digits of a non-negative integer
NonNegativeEncoding(raw) == raw.k = "string" /\ AllDigits(Chars(raw.s))

NonNegativeId(entity) == entity["id"].k = "number" /\ entity["id"].n >= 0

\* C11: every decoded entity and every event date in it has a non-negative
\* id, and no entity is decoded from a node whose raw id is null or a string
\* that is not the decimal encoding of a non-negative integer.
C11_IdsNonNegative ==
    AnyDecoded =>
        \A i \in 1..Len(DecodedEntities) :
            /\ NonNegativeId(DecodedEntities[i])
            /\ decoder \in EventDecoders =>
                  \A a \in 1..Len(DecodedEntities[i]["dates"]) :
                      NonNegativeId(DecodedEntities[i]["dates"][a])
            /\ DecodedNodes[i].m.id.k # "null"
            /\ DecodedNodes[i].m.id.k = "string" => NonNegativeEncoding(DecodedNodes[i].m.id)

HasRelationship(node, name) ==
    "relationships" \in DOMAIN node.m /\ name \in DOMAIN node.m.relationships.m

\* every item of `included` is a resource with an attributes object
IncludedWellFormed(doc) ==
    \A p \in 1..Len(TableOf(doc)) : Member(TableOf(doc)[p], "attributes").k = "object"

\* C12: an event document whose nodes are well-formed and carry no dates
\* relationship decodes, whatever `included` holds; every decoded event has
\* both dates and group_ids, and the field of a relationship the node does not
\* have, or of a node without relationships, is the empty sequence.
C12_AbsentRelationshipsDefault ==
    (stage = "parsed" /\ decoder \in EventDecoders /\ ReadableDocument(decoder, input)) =>
        LET nodes == NodesOf(decoder, input)
        IN  /\ (/\ IncludedWellFormed(input)
                /\ \A i \in 1..Len(nodes) :
                      /\ ~MalformedNode("events", nodes[i])
                      /\ ~HasRelationship(nodes[i], "dates"))
               => output.success
            /\ output.success =>
                  \A i \in 1..Len(nodes) :
                      /\ {"dates", "group_ids"} \subseteq DOMAIN Entities[i]
                      /\ ~HasRelationship(nodes[i], "dates") => Entities[i]["dates"] = <<>>
                      /\ ~HasRelationship(nodes[i], "groups") => Entities[i]["group_ids"] = <<>>

\* C12 witness: an event with a groups relationship and no dates relationship
\* has decoded, next to an included event date, to no dates and its group ids
C12_Witness ==
    /\ EventDecoded
    /\ decoder = "EventSchema"
    /\ \E p \in 1..Len(TableOf(input)) : RefType(TableOf(input)[p]) = "event_dates"
    /\ HasRelationship(input.m.data, "groups")
    /\ ~HasRelationship(input.m.data, "dates")
    /\ output.data["dates"] = <<>>
    /\ Len(output.data["group_ids"]) = 2

\* C12 second witness: an event without a relationships member has decoded to
\* no dates and no group ids
C12_WitnessNoRelationships ==
    /\ EventDecoded
    /\ \E i \in 1..Len(PrimaryNodes) :
          /\ "relationships" \notin DOMAIN PrimaryNodes[i].m
          /\ Entities[i]["dates"] = <<>>
          /\ Entities[i]["group_ids"] = <<>>

RolesDecoded == stage = "parsed" /\ decoder = "RolesResponseSchema" /\ output.success

\* the reference relationships.<name>.data of a role node, Undefined when the
\* relationships, the relationship or its data is absent
LinkedReference(node, name) ==
    Member(Member(Member(node, "relationships"), name), "data")

LinkedId(node, name) ==
    IF LinkedReference(node, name).k = "undefined" THEN Num(0)
    ELSE Num(IdValue(LinkedReference(node, name).m.id))

C14_RoleLinksFromAttributes ==
    RolesDecoded =>
        \A i \in 1..Len(output.data) :
            LET node == input.m.data.items[i]
                attributes == Member(node, "attributes")
            IN  (/\ "relationships" \notin DOMAIN node.m
                 /\ Member(attributes, "person_id").k = "number"
                 /\ Member(attributes, "group_id").k = "number")
                => /\ output.data[i].person_id = Member(attributes, "person_id")
                   /\ output.data[i].group_id = Member(attributes, "group_id")

SingleDecoded == stage = "parsed" /\ decoder \in SingleDecoders /\ output.success

\* the attribute fields each kind of entity declares
DeclaredFields(d) ==
    CASE d = "PersonSchema" ->
            {"first_name", "last_name", "nickname", "email", "birthday", "gender",
             "address", "zip_code", "town", "country", "primary_group_id"}
      [] d = "GroupSchema" ->
            {"name", "short_name", "type", "parent_id", "layer_group_id", "email",
             "address", "zip_code", "town", "country"}
      [] d = "EventSchema" ->
            {"name", "description", "motto", "cost", "maximum_participants",
             "participant_count", "location", "application_opening_at",
             "application_closing_at", "application_conditions", "state"}

\* id-linkage and count fields are numbers, zip codes are strings
NumberFields ==
    {"primary_group_id", "parent_id", "layer_group_id", "maximum_participants",
     "participant_count"}

Coerced(field, v) ==
    IF v.k = "null" THEN v
    ELSE IF field \in NumberFields THEN Num(IdValue(v))
    ELSE IF field = "zip_code" /\ v.k = "number" THEN Str(ToString(v.n))
    ELSE v

\* C15: the entity decoded from a single-resource document has the numeric
\* value of data.id as its id and, for every declared attribute present in
\* data.attributes, a field of that name holding the attribute's value, turned
\* into a number for the id-linkage and count fields and into a string for the
\* zip code.
C15_EntityMirrorsAttributes ==
    SingleDecoded =>
        LET node == input.m.data
            attributes == node.m.attributes.m
        IN  /\ output.data["id"] = Num(IdValue(node.m.id))
            /\ \A f \in DeclaredFields(decoder) \cap DOMAIN attributes :
                  /\ f \in DOMAIN output.data
                  /\ output.data[f] = Coerced(f, attributes[f])

\* C15 witness: a person with a numeric-string primary_group_id, a numeric
\* zip_code and a null nickname has decoded to the number, the string and null
C15_Witness ==
    /\ SingleDecoded
    /\ decoder = "PersonSchema"
    /\ Member(input.m.data.m.attributes, "primary_group_id") = Str("5")
    /\ Member(input.m.data.m.attributes, "zip_code") = Num(8000)
    /\ output.data["primary_group_id"] = Num(5)
    /\ output.data["zip_code"] = Str("8000")
    /\ output.data["nickname"] = Null
    /\ output.data["gender"] = Str("w")
    /\ output.data["id"] = Num(2)

----------------------------------------------------------------------------
(* Claims about the requests                                                *)

\* C16: in every request URL each filter is written filter%5Bkey%5D=value, and
\* no URL holds a bracket that is not percent-encoded.
C16_FiltersPercentEncoded ==
    \A r \in 1..Len(requests) :
        LET url == requests[r].url
        IN  /\ \A p \in 1..Len(url) : url[p] \notin {"[", "]"}
            /\ \A p \in 1..Len(url) :
                  url[p] = "filter" =>
                      /\ p + 4 <= Len(url)
                      /\ url[p + 1] = "%5B"
                      /\ url[p + 3] = "%5D"
                      /\ url[p + 4] = "="

\* C17: every request URL is the origin of the configured baseUrl, without
\* its trailing slashes, followed by the path: no two slashes in a row after
\* the origin, and /api right after the origin in the JSON:API client.
C17_NoDoubleSlash ==
    \A r \in 1..Len(requests) :
        LET url == requests[r].url
        IN  /\ url[1] = Origin
            /\ url[2] = "/"
            /\ \A p \in 2..(Len(url) - 1) : ~(url[p] = "/" /\ url[p + 1] = "/")
            /\ variant = "jsonapi" => url[3] = "api" /\ url[4] = "/"

----------------------------------------------------------------------------
(* Claims about validation                                                  *)

KindOf(d) ==
    CASE d \in {"PersonSchema", "PeopleResponseSchema"} -> "people"
      [] d \in {"GroupSchema", "GroupsResponseSchema"} -> "groups"
      [] d \in {"EventSchema", "EventsResponseSchema"} -> "events"
      [] d = "RolesResponseSchema" -> "roles"

\* the one primary node of a single-resource document or of a one-role list
OnlyNode ==
    IF decoder \in SingleDecoders THEN Member(input, "data")
    ELSE Member(input, "data").items[1]

\* a document of one primary node with a readable id, without relationships
\* and without `included`
OneNodeDocument ==
    /\ stage = "parsed"
    /\ decoder \in SingleDecoders \cup {"RolesResponseSchema"}
    /\ input.k = "object"
    /\ "included" \notin DOMAIN input.m
    /\ decoder = "RolesResponseSchema" =>
          Member(input, "data").k = "array" /\ Len(Member(input, "data").items) = 1
    /\ OnlyNode.k = "object"
    /\ Member(OnlyNode, "id").k = "number" \/ Member(OnlyNode, "id") \in KnownIds
    /\ "relationships" \notin DOMAIN OnlyNode.m
    /\ Member(OnlyNode, "attributes").k = "object"

\* gender holds something else than m, w or null
GenderOutsideEnum(node) ==
    LET gender == Member(Member(node, "attributes"), "gender")
    IN  gender.k \notin {"undefined", "null"} /\ gender \notin {Str("m"), Str("w")}

\* C18: a node fails validation exactly when its type tag is wrong, a required
\* attribute is missing or not a string, or gender lies outside its
\* enumeration; in particular a node whose optional attributes are absent or
\* null decodes.
C18_OnlyRequiredFieldsFail ==
    OneNodeDocument =>
        (~output.success <=>
            \/ MalformedNode(KindOf(decoder), OnlyNode)
            \/ GenderOutsideEnum(OnlyNode))

----------------------------------------------------------------------------
(* Claims about the course of a call                                        *)

InCall == pc \in {"fetching", "reading", "done"}

\* a call in progress has issued one request, and no request is outstanding
\* between calls
OneRequestPerCall ==
    /\ InCall => Len(requests) = 1
    /\ pc = "idle" => requests = <<>>

\* C19: a call issues exactly one transport request; once the transport has
\* answered, the call issues no other request, and once it has settled, with a
\* result or with an error, nothing follows but its end; every call that has
\* issued its request settles.
C19_OneRequestThenSettles ==
    /\ []OneRequestPerCall
    /\ [][(pc \in {"reading", "done"}) => (requests' = requests \/ pc' = "idle")]_vars
    /\ [][(pc = "done") => (pc' = "idle" /\ requests' = <<>>)]_vars
    /\ (pc = "fetching") ~> (pc = "done")

\* C19 witness: a call has failed on validation after its single request
C19_Witness ==
    /\ pc = "done"
    /\ Failed("ValidationError")
    /\ Len(requests) = 1
    /\ response.status = 200

Status2xx == response.status \in 200..299

\* the body is being read, or has been read, only under a 2xx status; a
\* SyntaxError is what reading a body that is not JSON leaves behind
BodyReadOnly2xx ==
    /\ pc = "reading" => Status2xx
    /\ Failed("SyntaxError") => Status2xx

\* a schema has been applied only under a 2xx status and to a parsed body
SchemaOnlyAfterParse ==
    /\ schema # "none" => (Status2xx /\ response.body # Unparsable)
    /\ Failed("ValidationError") => (Status2xx /\ schema # "none")

\* C20: the status is classified before the body is read: a response that is
\* not 2xx settles the call in the step that receives it, with an error, its
\* body neither parsed nor handed to a schema, whatever the body holds; a
\* schema is applied only in the step that follows the reading of the body of
\* a 2xx response, and only to a body that parsed.
C20_StatusBeforeBody ==
    /\ []BodyReadOnly2xx
    /\ []SchemaOnlyAfterParse
    /\ [][(pc = "fetching" /\ response' # response /\ response'.status \notin 200..299)
            => (pc' = "done" /\ outcome'.kind = "error" /\ schema' = "none")]_vars
    /\ [][(schema' # schema /\ schema' # "none")
            => (pc = "reading" /\ Status2xx /\ response.body # Unparsable)]_vars

\* C20 witness: a 400 that carried a well-formed person document has failed the
\* call and no schema has seen the document
C20_Witness ==
    /\ pc = "done"
    /\ response.status = 400
    /\ response.body # Unparsable
    /\ call.accessor = "getPerson"
    /\ schema = "none"
    /\ Failed("Error")

----------------------------------------------------------------------------
(* Claims about the errors of decoding                                      *)

\* C21: a call whose 2xx body was parsed and handed to its schema fails, if it
\* fails, with a ValidationError, also when an included event-date node that
\* the event references does not fit its attribute schema; the one other
\* error after decoding is the NotFoundError that src/src/client.ts raises for
\* a well-formed list without the entry asked for, which is no mismatch.
C21_DecodingFailsWithValidationError ==
    (Decoded /\ outcome.kind = "error") =>
        \/ Failed("ValidationError")
        \/ variant = "legacy" /\ Failed("NotFoundError")

----------------------------------------------------------------------------
(* Claims about the included table of an events list                        *)

EventListDecoded == stage = "parsed" /\ decoder = "EventsResponseSchema" /\ output.success

\* the ids of the event-date nodes of the table
DateNodeIds(table) ==
    {RefId(table[p]) : p \in {q \in 1..Len(table) : RefType(table[q]) = "event_dates"}}

\* the ids of the decoded dates of the i-th event of the list
DateIdsOf(i) == {output.data[i]["dates"][p]["id"].n : p \in 1..Len(output.data[i]["dates"])}

\* the ids the i-th primary event refers to in relationships.dates
OwnDateIds(i) == ReferencedIds(ReferencesOf(input.m.data.items[i], "dates"))

\* C22: every event of a decoded list is resolved against the one included
\* table of the document: its dates are the event-date nodes of the table that
\* the event itself refers to, as often as the table holds them; so a node
\* two events refer to is in the dates of both, and a node only another event
\* refers to is in the dates of none but that one.
C22_SharedIncludedTable ==
    EventListDecoded =>
        LET table == TableOf(input)
        IN  /\ \A i \in 1..Len(output.data) :
                  /\ DateIdsOf(i) = DateNodeIds(table) \cap OwnDateIds(i)
                  /\ \A id \in DateIdsOf(i) :
                        EntriesWith(output.data[i]["dates"], id) = DateNodesWith(table, id)
            /\ \A i, j \in 1..Len(output.data) :
                  /\ DateNodeIds(table) \cap OwnDateIds(i) \cap OwnDateIds(j)
                        \subseteq DateIdsOf(i) \cap DateIdsOf(j)
                  /\ (OwnDateIds(j) \ OwnDateIds(i)) \cap DateIdsOf(i) = {}

\* C22 witness: of two decoded events the first refers to date node 1 and the
\* second to date nodes 2 and 1, both nodes are in the table; node 1 is in the
\* dates of both events and node 2 only in those of the second
C22_Witness ==
    /\ EventListDecoded
    /\ Len(output.data) = 2
    /\ DateNodeIds(TableOf(input)) = {1, 2}
    /\ OwnDateIds(1) = {1}
    /\ OwnDateIds(2) = {1, 2}
    /\ DateIdsOf(1) = {1}
    /\ DateIdsOf(2) = {1, 2}

----------------------------------------------------------------------------
(* Claims about concurrent calls                                            *)

\* what a call alone on the client comes to, given its arguments and what
\* the transport answered
SequentialOutcome(c, r) ==
    LET step == IF variant = "legacy" THEN LegacyRequest(r) ELSE request(r)
    IN  IF r = NoResponse THEN Raise("TypeError", <<"fetch failed">>)
        ELSE IF step.kind = "error" THEN step
        ELSE IF r.body = Unparsable THEN Raise("SyntaxError", <<"Unexpected token">>)
        ELSE IF variant = "legacy" THEN LegacyAccessor(c.accessor, c.args, r.body)
        ELSE Accessor(c.accessor, r.body)

\* every request in flight carries the configured token
TokenInEveryRequest ==
    \A s \in Slots :
        inflight[s].pc # "idle" => inflight[s].request.headers["X-Token"] = token

\* a settled call has the outcome of the same call alone on the client
OutcomeOfOwnCall ==
    \A s \in Slots :
        inflight[s].pc = "done" =>
            inflight[s].outcome = SequentialOutcome(inflight[s].call, inflight[s].response)

\* C23: no step of a call changes baseUrl or token; however the steps of
\* concurrent calls interleave, a step of one call leaves the other calls as
\* they are, a settled call has the outcome its own arguments and its own
\* response give, and every request carries the configured token as X-Token.
C23_CallsIndependent ==
    /\ [][baseUrl' = baseUrl /\ token' = token]_vars
    /\ [][\E s \in Slots : \A t \in Slots \ {s} : inflight'[t] = inflight[t]]_vars
    /\ []TokenInEveryRequest
    /\ []OutcomeOfOwnCall

\* C23 witness: two calls are in flight under the second token; the first has
\* settled with a person, the second, for another person, still reads a body
\* that is no person document
C23_Witness ==
    /\ token = "other-token"
    /\ inflight[1].pc = "done"
    /\ inflight[1].call = [accessor |-> "getPerson", args |-> <<1>>]
    /\ inflight[1].outcome.kind = "value"
    /\ inflight[1].request.headers["X-Token"] = "other-token"
    /\ inflight[2].pc = "reading"
    /\ inflight[2].call = [accessor |-> "getPerson", args |-> <<2>>]
    /\ inflight[2].response # inflight[1].response

----------------------------------------------------------------------------
(* Claims about attribute keys and derived fields                           *)

\* the single-resource decoder of the same kind of entity
SingleOf(d) ==
    CASE d \in {"PersonSchema", "PeopleResponseSchema"} -> "PersonSchema"
      [] d \in {"GroupSchema", "GroupsResponseSchema"} -> "GroupSchema"
      [] d \in {"EventSchema", "EventsResponseSchema"} -> "EventSchema"

\* the fields an entity can have: the derived ones and the declared attributes
EntityFields(d) ==
    IF d = "RolesResponseSchema"
    THEN {"id", "type", "name", "person_id", "group_id", "created_at", "updated_at",
          "deleted_at"}
    ELSE {"id"} \cup DeclaredFields(SingleOf(d))
            \cup (IF d \in EventDecoders THEN {"dates", "group_ids"} ELSE {})

\* the included event-date nodes the event node refers to
OwnDateNodes(node) ==
    SelectSeq(TableOf(input),
              LAMBDA n : /\ RefType(n) = "event_dates"
                         /\ RefId(n) \in ReferencedIds(ReferencesOf(node, "dates")))

GroupDecoders == {"GroupSchema", "GroupsResponseSchema"}

\* id, dates and group_ids of the entity are those of the node and of its
\* relationships, and the entity has no undeclared field
DerivedFieldsKept(entity, node) ==
    /\ entity["id"] = Num(IdValue(node.m.id))
    /\ DOMAIN entity \subseteq EntityFields(decoder)
    /\ decoder \in EventDecoders =>
          LET groups == ReferencesOf(node, "groups")
              days == OwnDateNodes(node)
          IN  /\ entity["group_ids"] = [p \in 1..Len(groups) |-> Num(RefId(groups[p]))]
              /\ Len(entity["dates"]) = Len(days)
              /\ \A p \in 1..Len(days) : entity["dates"][p]["id"] = Num(RefId(days[p]))

\* C24 as stated: no key of data.attributes replaces a field the decoder
\* derives from the structure of the node: the id is that of data.id, dates and
\* group_ids are those of the relationships, the type of a group is the type
\* tag of the node, and undeclared attribute keys are not in the entity.
C24_NoAttributeOverrides ==
    AnyDecoded =>
        \A i \in 1..Len(DecodedEntities) :
            /\ DerivedFieldsKept(DecodedEntities[i], DecodedNodes[i])
            /\ decoder \in GroupDecoders => DecodedEntities[i]["type"] = DecodedNodes[i].m.type

\* C24, amended: an attribute named id, dates or group_ids replaces nothing and
\* undeclared attribute keys are not in the entity; the type of a group is
\* the declared attribute `type` when data.attributes holds one, and the type
\* tag of the node otherwise.
C24_AttributesNeverOverride ==
    AnyDecoded =>
        \A i \in 1..Len(DecodedEntities) :
            LET entity == DecodedEntities[i]
                node == DecodedNodes[i]
            IN  /\ DerivedFieldsKept(entity, node)
                /\ decoder \in GroupDecoders =>
                      entity["type"] = IF "type" \in DOMAIN node.m.attributes.m
                                       THEN node.m.attributes.m["type"]
                                       ELSE node.m.type

\* C24 witness: a group whose attributes hold id, type and an undeclared key
\* has decoded to the id of data.id and the type of the attributes, without
\* the undeclared key
C24_Witness ==
    /\ stage = "parsed"
    /\ decoder = "GroupSchema"
    /\ output.success
    /\ {"id", "type", "leader"} \subseteq DOMAIN input.m.data.m.attributes.m
    /\ input.m.data.m.id = Str("1")
    /\ output.data["id"] = Num(1)
    /\ output.data["type"] = Str("Group::Abteilung")
    /\ "leader" \notin DOMAIN output.data

\* an event whose attributes hold id, dates, group_ids and an undeclared key
\* has decoded to the id of data.id, the included date and the referenced
\* group, without the undeclared key
C24_WitnessEvent ==
    /\ stage = "parsed"
    /\ decoder = "EventSchema"
    /\ output.success
    /\ {"id", "dates", "group_ids", "leader"} \subseteq DOMAIN input.m.data.m.attributes.m
    /\ input.m.data.m.id = Str("1")
    /\ output.data["id"] = Num(1)
    /\ output.data["group_ids"] = <<Num(5)>>
    /\ Len(output.data["dates"]) = 1
    /\ output.data["dates"][1]["id"] = Num(1)
    /\ "leader" \notin DOMAIN output.data

====
